---------------------------- MODULE Spec2Model ----------------------------
(***************************************************************************)
(* A model of the detection and mitigation pipeline of the reverse proxy:  *)
(* the sliding-window store, the mitigation controller, the client-IP      *)
(* resolver, the detection engine, the prediction caches, the upstream     *)
(* HTTP client and the proxy request handler.                              *)
(*                                                                         *)
(* Each component has its own specification (SpecStore, SpecMitigation,    *)
(* ...) over the variables of that component; the variables of the other   *)
(* components stay at their initial value.                                 *)
(*                                                                         *)
(* Times are whole seconds.  Rates (count / window) are kept as exact      *)
(* fractions [num, den] and compared by cross-multiplication.              *)
(***************************************************************************)
EXTENDS Integers, Sequences, FiniteSets, TLC

(* ----------------------------- bounds ---------------------------------- *)

\* The largest value of the wall clock (time.time()) and of an explicit timestamp.
MaxClock == 3

\* window_seconds of the SlidingWindowStore under analysis.
WindowSeconds == 1

\* The largest number of events the store is given in one run.
MaxEvents == 2

\* sliding_window_seconds of the MitigationController under analysis (W_rl).
RateWindow == 1

\* How many seconds the clock runs while the controller is exercised.
MitHorizon == 3

\* The largest number of items of an X-Forwarded-For header.
MaxXff == 2

VARIABLES
    clock,          \* time.time(), in seconds, >= 1
    per_ip,         \* SlidingWindowStore._per_ip     : ip -> queue of timestamps
    global_q,       \* SlidingWindowStore._global     : queue of timestamps
    active_ips,     \* SlidingWindowStore._active_ips : ip -> last seen
    storeHist,      \* what the last store operation was and returned
    rate_limited_ips, \* MitigationController.rate_limited_ips : ip -> last allowed time
    mitHist,        \* what the last call of the controller was and returned
    resolved,       \* the resolver's last two calls: the requests and the results
    blocklist_ips,  \* DetectionEngine.blocklist_ips
    detected,       \* the engine's last evaluation: the inputs and the verdict
    client_open,    \* UpstreamHTTPClient._client is not None
    fwd,            \* the client's last forward: retry limit, upstream outcomes, result
    services_up,    \* startup built the detection services (FALSE: demo mode)
    telemetry,      \* TelemetryClient._events, newest first
    handled,        \* the handler's last request: what it decided and answered
    classifier,     \* the fitted classifier of the service's model: features -> risk
    model_cache,    \* ModelCache._cache, in insertion order
    feature_store,  \* PredictionService._feature_store (its keys)
    lru,            \* the lru_cache of _cached_predict, least recently used first
    last_stored,    \* per key, the prediction stored last in a cache
    cacheHist,      \* the service's last predict: the key, the time, the answer
    pool,           \* the shared UpstreamHTTPClient: _client, _lock, the clients built
    tasks,          \* the tasks inside forward: where each is
    pending,        \* the requests inside proxy_request that await their body
    arrivals,       \* the requests that entered proxy_request so far
    seen,           \* the requests in the order the store and the controller observed them
    ring,           \* a TelemetryClient._events of its own size, newest first
    mw,             \* the middleware's last dispatch: what it predicted, decided and answered
    svc,            \* the PredictionService under concurrent callers: queue, workers, evaluations
    callers,        \* the tasks inside predict: where each is, its future, its answer
    tel_events,     \* TelemetryClient._events, newest first
    recorded,       \* every event handed to record, oldest first
    recent,         \* the last call of recent_events and its answer
    tally,          \* what the store was given so far: add_event calls and the oldest timestamp per IP, the latest evaluation time
    scored,         \* one evaluation of the model: the classifier's answer, the profile, the prediction
    body_len,       \* the length in bytes of the body of the requests the handler receives
    analysed,       \* one call of analyze_request: its arguments and the DetectionResult
    alerting,       \* the AlertingEngine: alerts, last_alert_time, ip_patterns
    alert_call,     \* the last record_request: its arguments, the state it found, what it returned
    appliers,       \* the tasks inside apply for a RATE_LIMIT verdict, each at its step of _apply_rate_limit
    rl_lock,        \* the holder of MitigationController.lock, 0 when free
    grants,         \* the applications _apply_rate_limit allowed, in order
    denials         \* per IP, the last allowed RATE_LIMIT application and those denied since

storeVars == <<per_ip, global_q, active_ips, storeHist>>

mitVars == <<rate_limited_ips, mitHist>>

resVars == <<resolved>>

detVars == <<blocklist_ips, detected>>

fwdVars == <<client_open, fwd>>

proxyVars == <<services_up, telemetry, handled>>

cacheVars == <<classifier, model_cache, feature_store, lru, last_stored, cacheHist>>

clientVars == <<pool, tasks>>

handlerVars == <<pending, arrivals, seen, ring>>

appVars == <<mw>>

batchVars == <<svc, callers>>

ringVars == <<tel_events, recorded, recent>>

tallyVars == <<tally>>

scoreVars == <<scored>>

bodyVars == <<body_len>>

analysisVars == <<analysed>>

alertVars == <<alerting, alert_call>>

limiterVars == <<appliers, rl_lock, grants>>

denialVars == <<denials>>

vars == <<clock, storeVars, mitVars, resVars, detVars, fwdVars, proxyVars, cacheVars, clientVars, handlerVars, appVars, batchVars, ringVars, tallyVars, scoreVars, bodyVars, analysisVars, alertVars, limiterVars, denialVars>>

\* The variables of the components other than the named one.
storeOthers == <<mitVars, resVars, detVars, fwdVars, proxyVars, cacheVars, clientVars, handlerVars, appVars, batchVars, ringVars, tallyVars, scoreVars, bodyVars, analysisVars, alertVars, limiterVars, denialVars>>

mitOthers == <<storeVars, resVars, detVars, fwdVars, proxyVars, cacheVars, clientVars, handlerVars, appVars, batchVars, ringVars, tallyVars, scoreVars, bodyVars, analysisVars, alertVars, limiterVars>>

resOthers == <<storeVars, mitVars, detVars, fwdVars, proxyVars, cacheVars, clientVars, handlerVars, appVars, batchVars, ringVars, tallyVars, scoreVars, bodyVars, analysisVars, alertVars, limiterVars, denialVars>>

detOthers == <<storeVars, mitVars, resVars, fwdVars, proxyVars, cacheVars, clientVars, handlerVars, appVars, batchVars, ringVars, tallyVars, scoreVars, bodyVars, analysisVars, alertVars, limiterVars, denialVars>>

proxyOthers == <<resVars, detected, cacheVars, clientVars, handlerVars, batchVars, ringVars, tallyVars, scoreVars, bodyVars, analysisVars, alertVars, limiterVars, denialVars>>

cacheOthers == <<storeVars, mitVars, resVars, detVars, fwdVars, proxyVars, clientVars, handlerVars, appVars, batchVars, ringVars, tallyVars, scoreVars, bodyVars, analysisVars, alertVars, limiterVars, denialVars>>

fwdOthers == <<storeVars, mitVars, resVars, detVars, proxyVars, cacheVars, clientVars, handlerVars, appVars, batchVars, ringVars, tallyVars, scoreVars, bodyVars, analysisVars, alertVars, limiterVars, denialVars>>

clientOthers == <<storeVars, mitVars, resVars, detVars, fwdVars, proxyVars, cacheVars, handlerVars, appVars, batchVars, ringVars, tallyVars, scoreVars, bodyVars, analysisVars, alertVars, limiterVars, denialVars>>

\* The variables the pipeline of the handler leaves alone, its own aside.
pipelineOthers == <<resVars, detVars, fwdVars, proxyVars, cacheVars, clientVars, appVars, batchVars, ringVars, tallyVars, scoreVars, bodyVars, analysisVars, alertVars, limiterVars, denialVars>>

handlerOthers == <<storeVars, mitVars, resVars, detVars, fwdVars, proxyVars, cacheVars, clientVars, appVars, batchVars, ringVars, tallyVars, scoreVars, bodyVars, analysisVars, alertVars, limiterVars, denialVars>>

appOthers == <<storeVars, mitVars, resVars, detVars, fwdVars, proxyVars, cacheVars, clientVars, handlerVars, batchVars, ringVars, tallyVars, scoreVars, bodyVars, analysisVars, alertVars, limiterVars, denialVars>>

batchOthers == <<storeVars, mitVars, resVars, detVars, fwdVars, proxyVars, clientVars, handlerVars, appVars, ringVars, tallyVars, scoreVars, bodyVars, analysisVars, alertVars, limiterVars, denialVars>>

ringOthers == <<storeVars, mitVars, resVars, detVars, fwdVars, proxyVars, cacheVars, clientVars, handlerVars, appVars, batchVars, tallyVars, scoreVars, bodyVars, analysisVars, alertVars, limiterVars, denialVars>>

tallyOthers == <<mitVars, resVars, detVars, fwdVars, proxyVars, cacheVars, clientVars, handlerVars, appVars, batchVars, ringVars, scoreVars, bodyVars, analysisVars, alertVars, limiterVars, denialVars>>

scoreOthers == <<storeVars, mitVars, resVars, detVars, fwdVars, proxyVars, cacheVars, clientVars, handlerVars, appVars, batchVars, ringVars, tallyVars, bodyVars, analysisVars, alertVars, limiterVars, denialVars>>

bodyOthers == <<storeVars, mitVars, resVars, detVars, fwdVars, proxyVars, cacheVars, clientVars, handlerVars, appVars, batchVars, ringVars, tallyVars, scoreVars, analysisVars, alertVars, limiterVars, denialVars>>

analysisOthers == <<storeVars, mitVars, resVars, detVars, fwdVars, proxyVars, cacheVars, clientVars, handlerVars, appVars, batchVars, ringVars, tallyVars, scoreVars, bodyVars, alertVars, limiterVars, denialVars>>

alertOthers == <<storeVars, mitVars, resVars, detVars, fwdVars, proxyVars, cacheVars, clientVars, handlerVars, appVars, batchVars, ringVars, tallyVars, scoreVars, bodyVars, analysisVars, limiterVars, denialVars>>

limiterOthers == <<storeVars, resVars, detVars, fwdVars, proxyVars, cacheVars, clientVars, handlerVars, appVars, batchVars, ringVars, tallyVars, scoreVars, bodyVars, analysisVars, alertVars, denialVars>>

denialOthers == <<storeVars, mitVars, resVars, detVars, fwdVars, proxyVars, cacheVars, clientVars, handlerVars, appVars, batchVars, ringVars, tallyVars, scoreVars, bodyVars, analysisVars, alertVars, limiterVars>>

(* ----------------------------- helpers --------------------------------- *)

\* dict[k] = v
DictPut(d, k, v) == [x \in (DOMAIN d) \cup {k} |-> IF x = k THEN v ELSE d[x]]

\* dict.pop(k, None)
DictPop(d, k) == [x \in (DOMAIN d) \ {k} |-> d[x]]

EmptyDict == [x \in {} |-> 0]

(* ------------------------- canonical addresses ------------------------- *)

\* A normalized address: IP version and the address as a number of AddrBits bits.
AddrBits == 3

Addr(ver, n) == [ver |-> ver, n |-> n]

\* The value normalize_ip returns for an unparseable string (Python's None).
None == Addr(0, 0)

\* The clients the store and the controller are exercised with.
StoreIPs == {Addr(4, 1), Addr(4, 5)}

(* ------------------------- SlidingWindowStore -------------------------- *)

\* ts = timestamp or time.time(): an absent (None) or zero timestamp is falsy.
EffectiveTs(timestamp, now) == IF timestamp = 0 THEN now ELSE timestamp

\* while queue and queue[0] < window_start: queue.popleft(), with one popleft only.
PruneHeadOnce(q, window_start) ==
    IF Len(q) > 0 /\ Head(q) < window_start THEN Tail(q) ELSE q

\* while queue and queue[0] < window_start: queue.popleft()
RECURSIVE PruneHead(_, _)
PruneHead(q, window_start) ==
    IF Len(q) > 0 /\ Head(q) < window_start
    THEN PruneHead(Tail(q), window_start)
    ELSE q

\* _record_event: append to the IP's queue (created on first use), stamp the
\* active-IP map, append to the global queue.
RecordEvent(st, ip, timestamp) ==
    LET queue == IF ip \in DOMAIN st.per_ip THEN st.per_ip[ip] ELSE <<>>
    IN  [per_ip     |-> DictPut(st.per_ip, ip, Append(queue, timestamp)),
         active_ips |-> DictPut(st.active_ips, ip, timestamp),
         global_q   |-> Append(st.global_q, timestamp)]

\* The loop of _prune_all keeping an emptied queue in the per-IP index.
RECURSIVE PrunePerIpKeepEmpty(_, _, _)
PrunePerIpKeepEmpty(st, keys, window_start) ==
    IF keys = {} THEN st
    ELSE LET ip    == CHOOSE k \in keys : TRUE
             queue == PruneHead(st.per_ip[ip], window_start)
             next  == IF Len(queue) > 0
                      THEN [st EXCEPT !.per_ip = DictPut(st.per_ip, ip, queue),
                                      !.active_ips = DictPut(st.active_ips, ip, queue[Len(queue)])]
                      ELSE [st EXCEPT !.per_ip = DictPut(st.per_ip, ip, queue),
                                      !.active_ips = DictPop(st.active_ips, ip)]
         IN  PrunePerIpKeepEmpty(next, keys \ {ip}, window_start)

\* The loop over list(self._per_ip.keys()) of _prune_all, one IP at a time.
RECURSIVE PrunePerIp(_, _, _)
PrunePerIp(st, keys, window_start) ==
    IF keys = {} THEN st
    ELSE LET ip    == CHOOSE k \in keys : TRUE
             queue == PruneHead(st.per_ip[ip], window_start)
             next  == IF Len(queue) > 0
                      THEN [st EXCEPT !.per_ip = DictPut(st.per_ip, ip, queue),
                                      !.active_ips = DictPut(st.active_ips, ip, queue[Len(queue)])]
                      ELSE [st EXCEPT !.per_ip = DictPop(st.per_ip, ip),
                                      !.active_ips = DictPop(st.active_ips, ip)]
         IN  PrunePerIp(next, keys \ {ip}, window_start)

\* The safety guard of _prune_all: drop stale entries of the active-IP map.
DropStaleActive(active, window_start) ==
    [ip \in {k \in DOMAIN active : ~(active[k] < window_start)} |-> active[ip]]

\* _prune_all dropping also the events stamped exactly now - window_seconds.
PruneAllInclusive(st, now) ==
    LET window_start == now - WindowSeconds + 1
        g  == [st EXCEPT !.global_q = PruneHead(st.global_q, window_start)]
        p  == PrunePerIp(g, DOMAIN g.per_ip, window_start)
    IN  [p EXCEPT !.active_ips = DropStaleActive(p.active_ips, window_start)]

\* _prune_all(now)
PruneAll(st, now) ==
    LET window_start == now - WindowSeconds
        g  == [st EXCEPT !.global_q = PruneHead(st.global_q, window_start)]
        p  == PrunePerIp(g, DOMAIN g.per_ip, window_start)
    IN  [p EXCEPT !.active_ips = DropStaleActive(p.active_ips, window_start)]

\* A fraction num/den.
Frac(num, den) == [num |-> num, den |-> den]

\* a >= b for fractions with positive denominators.
FracGeq(a, b) == a.num * b.den >= b.num * a.den

FracGt(a, b) == a.num * b.den > b.num * a.den

\* _snapshot counting the events of every IP as the IP's own.
SnapshotOfAll(st, ip) ==
    LET global_count == Len(st.global_q)
    IN  [ip_request_rate     |-> Frac(global_count, WindowSeconds),
         global_request_rate |-> Frac(global_count, WindowSeconds),
         unique_ip_count     |-> Cardinality(DOMAIN st.active_ips),
         ip_event_count      |-> global_count,
         global_event_count  |-> global_count]

\* _snapshot(ip)
SnapshotOf(st, ip) ==
    LET ip_count     == IF ip \in DOMAIN st.per_ip THEN Len(st.per_ip[ip]) ELSE 0
        global_count == Len(st.global_q)
    IN  [ip_request_rate     |-> Frac(ip_count, WindowSeconds),
         global_request_rate |-> Frac(global_count, WindowSeconds),
         unique_ip_count     |-> Cardinality(DOMAIN st.active_ips),
         ip_event_count      |-> ip_count,
         global_event_count  |-> global_count]

\* The body of snapshot(): the aggregate metrics, no IP in focus.
AggregateSnapshot(st) ==
    [ip_request_rate     |-> Frac(0, WindowSeconds),
     global_request_rate |-> Frac(Len(st.global_q), WindowSeconds),
     unique_ip_count     |-> Cardinality(DOMAIN st.active_ips),
     ip_event_count      |-> 0,
     global_event_count  |-> Len(st.global_q)]

StoreState == [per_ip |-> per_ip, active_ips |-> active_ips, global_q |-> global_q]

NoSnapshot == AggregateSnapshot([per_ip |-> EmptyDict, active_ips |-> EmptyDict, global_q |-> <<>>])

\* The bookkeeping of the last store operation: its kind, its IP, the time it was
\* evaluated at, the snapshot it returned, the number of events recorded so far,
\* the timestamp of the latest add_event, and whether every add_event so far
\* carried a timestamp no smaller than the one before it.
InitStoreHist ==
    [op |-> "none", ip |-> None, now |-> 0, snap |-> NoSnapshot,
     events |-> 0, lastAdd |-> 0, ordered |-> TRUE, dropped |-> 0]

StoreInit ==
    /\ per_ip = EmptyDict
    /\ global_q = <<>>
    /\ active_ips = EmptyDict
    /\ storeHist = InitStoreHist

StoreCommit(st, op, ip, ts, snap, added) ==
    /\ per_ip' = st.per_ip
    /\ global_q' = st.global_q
    /\ active_ips' = st.active_ips
    /\ storeHist' = [op |-> op, ip |-> ip, now |-> ts, snap |-> snap,
                     events |-> storeHist.events + (IF added THEN 1 ELSE 0),
                     lastAdd |-> IF added THEN ts ELSE storeHist.lastAdd,
                     ordered |-> storeHist.ordered /\ (added => ts >= storeHist.lastAdd),
                     dropped |-> Len(global_q) + (IF added THEN 1 ELSE 0) - Len(st.global_q)]

\* Nothing was given to the store yet.
InitTally ==
    [adds |-> [ip \in StoreIPs |-> 0], oldest |-> [ip \in StoreIPs |-> 0], latest_now |-> 0,
     latest_since_add |-> 0]

TallyInit == tally = InitTally

\* The tally after an operation evaluated at ts, which added an event for ip or
\* (added = FALSE) none: the calls of add_event and the oldest timestamp per IP,
\* the latest evaluation time of all, and the latest one since the last add_event.
Tallied(t, ip, ts, added) ==
    LET seen_at == [t EXCEPT !.latest_now = IF ts > @ THEN ts ELSE @,
                             !.latest_since_add = IF added \/ ts > @ THEN ts ELSE @]
    IN  IF added
        THEN [seen_at EXCEPT !.adds[ip] = @ + 1,
                             !.oldest[ip] = IF t.adds[ip] = 0 \/ ts < @ THEN ts ELSE @]
        ELSE seen_at

\* add_event(ip, timestamp)
add_event(ip, timestamp) ==
    /\ storeHist.events < MaxEvents
    /\ LET ts == EffectiveTs(timestamp, clock)
           st == PruneAll(RecordEvent(StoreState, ip, ts), ts)
       IN  /\ StoreCommit(st, "add_event", ip, ts, SnapshotOf(st, ip), TRUE)
           /\ tally' = Tallied(tally, ip, ts, TRUE)
    /\ UNCHANGED <<clock, tallyOthers>>

\* peek(ip, timestamp)
peek(ip, timestamp) ==
    /\ LET ts == EffectiveTs(timestamp, clock)
           st == PruneAll(StoreState, ts)
       IN  /\ StoreCommit(st, "peek", ip, ts, SnapshotOf(st, ip), FALSE)
           /\ tally' = Tallied(tally, ip, ts, FALSE)
    /\ UNCHANGED <<clock, tallyOthers>>

\* snapshot(timestamp)
snapshot(timestamp) ==
    /\ LET ts == EffectiveTs(timestamp, clock)
           st == PruneAll(StoreState, ts)
       IN  /\ StoreCommit(st, "snapshot", None, ts, AggregateSnapshot(st), FALSE)
           /\ tally' = Tallied(tally, None, ts, FALSE)
    /\ UNCHANGED <<clock, tallyOthers>>

\* The wall clock advances.
Tick ==
    /\ clock < MaxClock
    /\ clock' = clock + 1

StoreTick == Tick /\ UNCHANGED <<storeVars, storeOthers>>

StoreNext ==
    \/ \E ip \in StoreIPs, t \in 0..MaxClock : add_event(ip, t)
    \/ \E ip \in StoreIPs, t \in 0..MaxClock : peek(ip, t)
    \/ \E t \in 0..MaxClock : snapshot(t)
    \/ StoreTick

(* ------------------------- MitigationController ------------------------ *)

Actions == {"allow", "block", "rate_limit", "challenge"}

\* The wall clock is epoch time: it is past any window length when the program starts.
Epoch == RateWindow + 1

\* _apply_rate_limit with the window test made non-strict (last_allowed <= window_start).
ApplyRateLimitNonStrict(limited, ip, now) ==
    LET window_start == now - RateWindow
        last_allowed == IF ip \in DOMAIN limited THEN limited[ip] ELSE 0
    IN  IF last_allowed <= window_start
        THEN [allowed |-> TRUE, limited |-> DictPut(limited, ip, now)]
        ELSE [allowed |-> FALSE, limited |-> limited]

\* _apply_rate_limit stamping the IP also when it denies.
ApplyRateLimitStampDenied(limited, ip, now) ==
    LET window_start == now - RateWindow
        last_allowed == IF ip \in DOMAIN limited THEN limited[ip] ELSE 0
    IN  [allowed |-> last_allowed < window_start, limited |-> DictPut(limited, ip, now)]

\* _apply_rate_limit(ip) at time now: the decision and the map after it.
ApplyRateLimit(limited, ip, now) ==
    LET window_start == now - RateWindow
        last_allowed == IF ip \in DOMAIN limited THEN limited[ip] ELSE 0
    IN  IF last_allowed < window_start
        THEN [allowed |-> TRUE, limited |-> DictPut(limited, ip, now)]
        ELSE [allowed |-> FALSE, limited |-> limited]

\* apply letting BLOCK verdicts through.
MitigationApplyAllowAll(limited, ip, action, now) ==
    IF action = "rate_limit" THEN ApplyRateLimit(limited, ip, now)
    ELSE [allowed |-> TRUE, limited |-> limited]

\* apply(ip, verdict): the allowed flag of the MitigationResult and the map after it.
MitigationApply(limited, ip, action, now) ==
    IF action = "rate_limit" THEN ApplyRateLimit(limited, ip, now)
    ELSE IF action = "block" THEN [allowed |-> FALSE, limited |-> limited]
    ELSE [allowed |-> TRUE, limited |-> limited]

\* request_rate_limit of the controller: more than one request per window.
RequestRateLimit == 2

\* get_remaining_requests(ip) at time now.
get_remaining_requests(limited, ip, now) ==
    LET window_start == now - RateWindow
        last_allowed == IF ip \in DOMAIN limited THEN limited[ip] ELSE 0
    IN  IF last_allowed < window_start THEN RequestRateLimit ELSE 0

\* MitigationResult(verdict=verdict, allowed=allowed): the fields of the schema,
\* an Optional field being <<>> for None and <<v>> for a value; the schema has no
\* field verdict, and apply sets no other.
MitigationResult(allowed) ==
    [allowed |-> allowed, rule_matched |-> <<>>, duration_seconds |-> <<>>]

\* block_duration of the settings, in clock ticks.
BlockDuration == 2

\* The reasons of the verdicts the controller is handed.
MitReasons == {"ip_blocklisted", "baseline"}

InitMitHist ==
    [op |-> "none", ip |-> None, action |-> "allow", reason |-> "none", now |-> 0,
     had |-> FALSE, prior |-> 0, allowed |-> TRUE, result |-> MitigationResult(TRUE)]

MitInit ==
    /\ rate_limited_ips = EmptyDict
    /\ mitHist = InitMitHist

\* The largest number of denied applications counted for one IP.
MaxDenied == 2

\* No RATE_LIMIT application was made yet: per IP, the time of the last allowed
\* one (0 for none), the number denied since, and the number that had been
\* denied when the last allowed one arrived.
DenialInit == denials = [ip \in StoreIPs |-> [last |-> 0, n |-> 0, between |-> 0]]

\* The record after an application of the IP at time now: an allowed one starts
\* a new window, a denied one is counted, another action changes nothing.
DenialsAfter(ip, action, allowed, now) ==
    IF action # "rate_limit" THEN denials
    ELSE IF allowed
         THEN [denials EXCEPT ![ip] = [last |-> now, n |-> 0, between |-> @.n]]
         ELSE [denials EXCEPT ![ip].n = IF @ < MaxDenied THEN @ + 1 ELSE @]

\* apply(ip, verdict) for a verdict with the given action and reason.
apply(ip, action, reason) ==
    /\ LET r == MitigationApply(rate_limited_ips, ip, action, clock)
       IN  /\ rate_limited_ips' = r.limited
           /\ mitHist' = [op |-> "apply", ip |-> ip, action |-> action,
                          reason |-> reason, now |-> clock,
                          result |-> MitigationResult(r.allowed),
                          had |-> ip \in DOMAIN rate_limited_ips,
                          prior |-> IF ip \in DOMAIN rate_limited_ips
                                    THEN rate_limited_ips[ip] ELSE 0,
                          allowed |-> r.allowed]
           /\ denials' = DenialsAfter(ip, action, r.allowed, clock)
    /\ UNCHANGED <<clock, mitOthers>>

\* unblock(ip)
unblock(ip) ==
    /\ rate_limited_ips' = DictPop(rate_limited_ips, ip)
    /\ mitHist' = [mitHist EXCEPT !.op = "unblock", !.ip = ip, !.now = clock]
    /\ denials' = [denials EXCEPT ![ip] = [last |-> 0, n |-> 0, between |-> 0]]
    /\ UNCHANGED <<clock, mitOthers>>

MitTick ==
    /\ clock < Epoch + MitHorizon
    /\ clock' = clock + 1
    /\ UNCHANGED <<storeVars, storeOthers>>

MitNext ==
    \/ \E ip \in StoreIPs, a \in Actions, reason \in MitReasons : apply(ip, a, reason)
    \/ \E ip \in StoreIPs : unblock(ip)
    \/ MitTick

\* Time passes; the controller starts no task of its own, and apply and unblock
\* run only when a request or an operator calls them.
MitFairness == WF_vars(MitTick)

(* --------------------------- client-IP resolver ------------------------ *)

\* A string that is handed to ip_address(): the text of an address (ver, n), in
\* its compressed spelling or in another valid one (alt: an IPv6 address written
\* in upper case or unabbreviated), possibly with blanks around it (pad); or text
\* that is no address (junk); or nothing (empty).
Tok(kind, ver, n, alt, pad) == [kind |-> kind, ver |-> ver, n |-> n, alt |-> alt, pad |-> pad]

\* The address texts the resolver is exercised with, blanks aside: two IPv4
\* addresses outside the trusted networks (1, 2), one inside (5), an IPv6 address
\* in a spelling that is not the compressed one, text that is no address, and
\* the empty text.
BareTokens ==
    {Tok("ip", 4, n, FALSE, FALSE) : n \in {1, 2, 5}}
    \cup {Tok("ip", 6, 4, TRUE, FALSE),
          Tok("junk", 0, 0, FALSE, FALSE), Tok("empty", 0, 0, FALSE, FALSE)}

\* str.strip()
Strip(tok) == [tok EXCEPT !.pad = FALSE]

\* normalize_ip(raw_ip): the compressed text of the address, which the model keeps
\* as the address itself, or None.
normalize_ip(raw) ==
    IF raw.kind = "empty" /\ ~raw.pad THEN None          \* if not raw_ip
    ELSE IF raw.kind # "ip" \/ raw.pad THEN None         \* ip_address raises ValueError
    ELSE Addr(raw.ver, raw.n)

\* A network: version, base address and prefix length.
Cidr(ver, base, len) == [ver |-> ver, base |-> base, len |-> len]

\* ip_obj in ip_network(cidr): same version and same leading len bits.
InNetwork(addr, cidr) ==
    /\ addr.ver = cidr.ver
    /\ addr.n \div 2^(AddrBits - cidr.len) = cidr.base \div 2^(AddrBits - cidr.len)

\* is_ip_in_cidr_list(ip, cidr_list) for a normalized ip and validated networks.
is_ip_in_cidr_list(ip, cidr_list) ==
    IF ip = None THEN FALSE
    ELSE \E i \in DOMAIN cidr_list : InNetwork(ip, cidr_list[i])

\* The trusted-proxy lists the resolver is exercised with: none, the upper half of
\* the IPv4 space (4..7), and that with the IPv6 network of address 4 added.
TrustedLists ==
    {<<>>, <<Cidr(4, 4, 1)>>, <<Cidr(4, 4, 1), Cidr(6, 4, 3)>>}

\* An X-Forwarded-For header: absent, or the items between its commas.  The
\* header "" is one empty item.
NoHeader == [present |-> FALSE, items |-> <<>>]

Header(items) == [present |-> TRUE, items |-> items]

\* if not xff: the header is absent or the empty string.
XffFalsy(xff) ==
    \/ ~xff.present
    \/ xff.items = <<Tok("empty", 0, 0, FALSE, FALSE)>>

\* for ip in reversed(ips): the first item from index i down to 1 that normalizes
\* to an address outside the trusted networks; None when there is none.
RECURSIVE ScanRightToLeft(_, _, _)
ScanRightToLeft(ips, i, trusted_proxies) ==
    IF i = 0 THEN None
    ELSE LET normalized == normalize_ip(ips[i])
         IN  IF normalized # None /\ ~is_ip_in_cidr_list(normalized, trusted_proxies)
             THEN normalized
             ELSE ScanRightToLeft(ips, i - 1, trusted_proxies)

\* extract_client_ip scanning the chain from the left (the spoofable end).
RECURSIVE ScanLeftToRight(_, _, _)
ScanLeftToRight(ips, i, trusted_proxies) ==
    IF i > Len(ips) THEN None
    ELSE LET normalized == normalize_ip(ips[i])
         IN  IF normalized # None /\ ~is_ip_in_cidr_list(normalized, trusted_proxies)
             THEN normalized
             ELSE ScanLeftToRight(ips, i + 1, trusted_proxies)

\* extract_client_ip with the header honoured whatever the peer is.
ExtractTrustingAnyPeer(req, trusted_proxies, honor_xff) ==
    LET peer_normalized == normalize_ip(req.peer)
        ips == [i \in 1..Len(req.xff.items) |-> Strip(req.xff.items[i])]
        hit == ScanRightToLeft(ips, Len(ips), trusted_proxies)
    IN  IF ~req.has_peer \/ peer_normalized = None THEN None
        ELSE IF XffFalsy(req.xff) THEN peer_normalized
        ELSE IF hit # None THEN hit
        ELSE peer_normalized

\* extract_client_ip with the chain scanned from the left.
ExtractLeftmost(req, trusted_proxies, honor_xff) ==
    LET peer_normalized == normalize_ip(req.peer)
        ips == [i \in 1..Len(req.xff.items) |-> Strip(req.xff.items[i])]
                   \o <<Tok("ip", peer_normalized.ver, peer_normalized.n, FALSE, FALSE)>>
        hit == ScanLeftToRight(ips, 1, trusted_proxies)
    IN  IF ~req.has_peer THEN None
        ELSE IF peer_normalized = None THEN None
        ELSE IF ~honor_xff \/ ~is_ip_in_cidr_list(peer_normalized, trusted_proxies)
             THEN peer_normalized
        ELSE IF XffFalsy(req.xff) THEN peer_normalized
        ELSE IF hit # None THEN hit
        ELSE normalize_ip(ips[1])

\* extract_client_ip(request, trusted_proxies, honor_xff).  A request is its peer
\* (request.client.host, has_peer false when there is none) and its header.
extract_client_ip(req, trusted_proxies, honor_xff) ==
    LET peer_normalized == normalize_ip(req.peer)
        \* ips = [ip.strip() for ip in xff.split(",")]; ips.append(peer_normalized)
        ips == [i \in 1..Len(req.xff.items) |-> Strip(req.xff.items[i])]
                   \o <<Tok("ip", peer_normalized.ver, peer_normalized.n, FALSE, FALSE)>>
        hit == ScanRightToLeft(ips, Len(ips), trusted_proxies)
    IN  IF ~req.has_peer THEN None
        ELSE IF peer_normalized = None THEN None
        ELSE IF ~honor_xff \/ ~is_ip_in_cidr_list(peer_normalized, trusted_proxies)
             THEN peer_normalized
        ELSE IF XffFalsy(req.xff) THEN peer_normalized
        ELSE IF hit # None THEN hit
        ELSE normalize_ip(ips[1])

\* The items a header may hold: the bare texts, and a padded one, as a header
\* separated by a comma and a blank produces.
XffItems == BareTokens \cup {Tok("ip", 4, 1, FALSE, TRUE)}

XffHeaders ==
    {NoHeader} \cup {Header(items) : items \in UNION {[1..k -> XffItems] : k \in 1..MaxXff}}

\* The headers a second request, equal to the first but for its header, carries.
OtherHeaders ==
    {NoHeader, Header(<<Tok("ip", 4, 2, FALSE, FALSE)>>),
     Header(<<Tok("junk", 0, 0, FALSE, FALSE), Tok("ip", 4, 1, FALSE, TRUE)>>)}

\* The peers: request.client.host, or no client at all.
Peers ==
    {[has_peer |-> TRUE, peer |-> t] : t \in BareTokens \cup {Tok("ip", 4, 5, FALSE, TRUE)}}
    \cup {[has_peer |-> FALSE, peer |-> Tok("empty", 0, 0, FALSE, FALSE)]}

Request(p, xff) == [has_peer |-> p.has_peer, peer |-> p.peer, xff |-> xff]

NoRequest == Request([has_peer |-> FALSE, peer |-> Tok("empty", 0, 0, FALSE, FALSE)], NoHeader)

InitResolved ==
    [done |-> FALSE, trusted |-> <<>>, honor |-> FALSE,
     req |-> NoRequest, ip |-> None, req2 |-> NoRequest, ip2 |-> None]

ResInit == resolved = InitResolved

\* Two requests that differ at most in their X-Forwarded-For header arrive under
\* one configuration.
ResInputs ==
    \E p \in Peers, xff \in XffHeaders, xff2 \in OtherHeaders,
       trusted \in TrustedLists, honor \in BOOLEAN :
        resolved = [done |-> FALSE, trusted |-> trusted, honor |-> honor,
                    req |-> Request(p, xff), ip |-> None,
                    req2 |-> Request(p, xff2), ip2 |-> None]

\* Both requests are resolved.
Resolve ==
    /\ ~resolved.done
    /\ resolved' = [resolved EXCEPT
            !.done = TRUE,
            !.ip = extract_client_ip(resolved.req, resolved.trusted, resolved.honor),
            !.ip2 = extract_client_ip(resolved.req2, resolved.trusted, resolved.honor)]
    /\ UNCHANGED <<clock, resOthers>>

ResNext == Resolve

(* ---------------------------- DetectionEngine -------------------------- *)

\* Text is a sequence of characters.  str.lower() on the letters in use.
LowerChar(c) ==
    CASE c = "W" -> "w" [] c = "G" -> "g" [] c = "E" -> "e" [] c = "T" -> "t"
      [] c = "U" -> "u" [] c = "S" -> "s" [] c = "R" -> "r" [] c = "A" -> "a"
      [] c = "N" -> "n" [] c = "Q" -> "q" [] c = "L" -> "l" [] c = "M" -> "m"
      [] c = "P" -> "p" [] OTHER -> c

Lower(text) == [i \in DOMAIN text |-> LowerChar(text[i])]

\* part in text
Contains(text, part) ==
    \E i \in 1..(Len(text) - Len(part) + 1) : SubSeq(text, i, i + Len(part) - 1) = part

\* DetectionEngine.suspicious_user_agents
suspicious_user_agents ==
    { <<"m", "a", "s", "s", "c", "a", "n">>, <<"s", "q", "l", "m", "a", "p">>, <<"w", "g", "e", "t">> }

\* The default thresholds of the engine.
ip_rate_threshold == Frac(5, 1)

burst_threshold == Frac(6, 1)

global_rate_threshold == Frac(400, 1)

\* The confidence an ML result must exceed: 0.8.
ml_confidence == Frac(8, 10)

\* The risk score from which an ML block is of high severity.
ml_high_risk == Frac(80, 1)

DefaultThresholds ==
    [ip_rate |-> ip_rate_threshold, burst |-> burst_threshold, global_rate |-> global_rate_threshold]

Verdict(action, severity, reason) == [action |-> action, severity |-> severity, reason |-> reason]

\* headers_lower.get("user-agent", "").lower(), the headers being at most one
\* header [key, value]; the key user-agent is spelled <<"u", "a">>, in either case.
UserAgentOf(headers) ==
    IF headers.present /\ Lower(headers.key) = <<"u", "a">> THEN Lower(headers.value) ELSE <<>>

\* The ML branch of evaluate: ml is the outcome of self.ml_model.predict, "absent"
\* when the engine has no model, "raise" when the call raises.
MlBlocks(ml) ==
    /\ ml.kind = "result"
    /\ ~ml.is_benign
    /\ FracGt(ml.confidence, ml_confidence)

\* evaluate with the classifier consulted before the volumetric rules.
EvaluateClassifierFirst(blocklist, thresholds, sample, features, ml) ==
    IF sample.client_ip \in blocklist
    THEN Verdict("block", "critical", "ip_blocklisted")
    ELSE IF \E ua \in suspicious_user_agents : Contains(UserAgentOf(sample.headers), ua)
    THEN Verdict("challenge", "high", "suspicious_user_agent")
    ELSE IF MlBlocks(ml)
    THEN Verdict("block", IF FracGeq(ml.risk_score, ml_high_risk) THEN "high" ELSE "medium",
                 "ml_detection")
    ELSE IF /\ FracGeq(features.ip_request_rate, thresholds.ip_rate)
            /\ FracGeq(features.burst_score, thresholds.burst)
    THEN Verdict("rate_limit", "high", "ip_rate_exceeded")
    ELSE IF FracGeq(features.global_request_rate, thresholds.global_rate)
    THEN Verdict("rate_limit", "medium", "global_rate_spike")
    ELSE Verdict("allow", "low", "baseline")

\* evaluate with the per-IP volumetric test made strict (> in place of >=).
EvaluateStrictVolume(blocklist, thresholds, sample, features, ml) ==
    IF sample.client_ip \in blocklist
    THEN Verdict("block", "critical", "ip_blocklisted")
    ELSE IF \E ua \in suspicious_user_agents : Contains(UserAgentOf(sample.headers), ua)
    THEN Verdict("challenge", "high", "suspicious_user_agent")
    ELSE IF /\ FracGt(features.ip_request_rate, thresholds.ip_rate)
            /\ FracGt(features.burst_score, thresholds.burst)
    THEN Verdict("rate_limit", "high", "ip_rate_exceeded")
    ELSE IF FracGeq(features.global_request_rate, thresholds.global_rate)
    THEN Verdict("rate_limit", "medium", "global_rate_spike")
    ELSE IF MlBlocks(ml)
    THEN Verdict("block", IF FracGeq(ml.risk_score, ml_high_risk) THEN "high" ELSE "medium",
                 "ml_detection")
    ELSE Verdict("allow", "low", "baseline")

\* evaluate with the user-agent rule consulted before the blocklist.
EvaluateUserAgentFirst(blocklist, thresholds, sample, features, ml) ==
    IF \E ua \in suspicious_user_agents : Contains(UserAgentOf(sample.headers), ua)
    THEN Verdict("challenge", "high", "suspicious_user_agent")
    ELSE IF sample.client_ip \in blocklist
    THEN Verdict("block", "critical", "ip_blocklisted")
    ELSE IF /\ FracGeq(features.ip_request_rate, thresholds.ip_rate)
            /\ FracGeq(features.burst_score, thresholds.burst)
    THEN Verdict("rate_limit", "high", "ip_rate_exceeded")
    ELSE IF FracGeq(features.global_request_rate, thresholds.global_rate)
    THEN Verdict("rate_limit", "medium", "global_rate_spike")
    ELSE IF MlBlocks(ml)
    THEN Verdict("block", IF FracGeq(ml.risk_score, ml_high_risk) THEN "high" ELSE "medium",
                 "ml_detection")
    ELSE Verdict("allow", "low", "baseline")

\* DetectionEngine.evaluate(sample, features)
Evaluate(blocklist, thresholds, sample, features, ml) ==
    IF sample.client_ip \in blocklist
    THEN Verdict("block", "critical", "ip_blocklisted")
    ELSE IF \E ua \in suspicious_user_agents : Contains(UserAgentOf(sample.headers), ua)
    THEN Verdict("challenge", "high", "suspicious_user_agent")
    ELSE IF /\ FracGeq(features.ip_request_rate, thresholds.ip_rate)
            /\ FracGeq(features.burst_score, thresholds.burst)
    THEN Verdict("rate_limit", "high", "ip_rate_exceeded")
    ELSE IF FracGeq(features.global_request_rate, thresholds.global_rate)
    THEN Verdict("rate_limit", "medium", "global_rate_spike")
    ELSE IF MlBlocks(ml)
    THEN Verdict("block", IF FracGeq(ml.risk_score, ml_high_risk) THEN "high" ELSE "medium",
                 "ml_detection")
    ELSE Verdict("allow", "low", "baseline")

\* The user-agent headers the engine is exercised with.
NoHeaders == [present |-> FALSE, key |-> <<>>, value |-> <<>>]

UserAgentKeys == { <<"u", "a">>, <<"U", "a">> }

UserAgentValues ==
    { <<"W", "g", "e", "t", "/", "1">>, <<"c", "u", "r", "l">>, <<"x", "S", "Q", "L", "M", "A", "P">>,
      <<"w", "g", "e">>, <<>> }

SampleHeaders ==
    {NoHeaders}
    \cup {[present |-> TRUE, key |-> k, value |-> v] : k \in UserAgentKeys, v \in UserAgentValues}
    \cup {[present |-> TRUE, key |-> <<"r", "e", "f">>, value |-> <<"w", "g", "e", "t">>]}

\* Feature vectors at, just under and just over each default threshold.
FeatureVectors ==
    [ip_request_rate : {Frac(49, 10), Frac(5, 1), Frac(51, 10)},
     burst_score : {Frac(59, 10), Frac(6, 1), Frac(61, 10)},
     global_request_rate : {Frac(3999, 10), Frac(400, 1), Frac(4001, 10)},
     unique_ip_count : {1}]

\* The outcomes of ml_model.predict.
MlAbsent == [kind |-> "absent", is_benign |-> TRUE, confidence |-> Frac(1, 1), risk_score |-> Frac(0, 1)]

MlRaise == [MlAbsent EXCEPT !.kind = "raise"]

MlOutcomes ==
    {MlAbsent, MlRaise}
    \cup [kind : {"result"}, is_benign : BOOLEAN,
          confidence : {Frac(8, 10), Frac(81, 100)},
          risk_score : {Frac(799, 10), Frac(80, 1)}]

Samples == [client_ip : StoreIPs, headers : SampleHeaders]

NoVerdict == Verdict("none", "none", "none")

InitDetected ==
    [done |-> FALSE, sample |-> [client_ip |-> None, headers |-> NoHeaders],
     features |-> [ip_request_rate |-> Frac(0, 1), burst_score |-> Frac(0, 1),
                   global_request_rate |-> Frac(0, 1), unique_ip_count |-> 0],
     ml |-> MlAbsent, blocklist |-> {}, verdict |-> NoVerdict]

DetInit ==
    /\ blocklist_ips = {}
    /\ detected = InitDetected

\* A request, its features and the classifier's answer, with some blocklist loaded.
DetInputs ==
    /\ blocklist_ips \in SUBSET StoreIPs
    /\ \E sample \in Samples, features \in FeatureVectors, ml \in MlOutcomes :
          detected = [InitDetected EXCEPT !.sample = sample, !.features = features, !.ml = ml]

\* evaluate(sample, features) on the pending request.
evaluate ==
    /\ ~detected.done
    /\ detected' = [detected EXCEPT
            !.done = TRUE,
            !.blocklist = blocklist_ips,
            !.verdict = Evaluate(blocklist_ips, DefaultThresholds,
                                 detected.sample, detected.features, detected.ml)]
    /\ UNCHANGED <<clock, blocklist_ips, detOthers>>

\* add_to_blocklist(ip)
add_to_blocklist(ip) ==
    /\ ip # None
    /\ blocklist_ips' = blocklist_ips \cup {ip}
    /\ UNCHANGED <<clock, detected, detOthers>>

\* remove_from_blocklist(ip)
remove_from_blocklist(ip) ==
    /\ blocklist_ips' = blocklist_ips \ {ip}
    /\ UNCHANGED <<clock, detected, detOthers>>

DetNext ==
    \/ evaluate
    \/ \E ip \in StoreIPs : add_to_blocklist(ip)
    \/ \E ip \in StoreIPs : remove_from_blocklist(ip)

(* -------------------------- UpstreamHTTPClient ------------------------- *)

\* The largest retry limit a client is built with.
MaxRetries == 3

\* max_retries when the caller gives none.
DefaultMaxRetries == 3

\* The exceptions forward retries on.
TransientErrors == {"ConnectError", "ReadTimeout", "WriteTimeout", "PoolTimeout"}

\* What one self._client.request(...) does: a response, or an exception.
Response(status) == [kind |-> "response", status |-> status]

Failure(error) == [kind |-> error, status |-> 0]

\* The exceptions of the transport (httpx.TransportError): the ones forward
\* retries on, and ConnectTimeout, which its except clause does not name.
TransportErrors == TransientErrors \cup {"ConnectTimeout"}

\* An exception that is none of the transport: httpx.InvalidURL.
Outcomes ==
    {Response(200), Response(503), Failure("ConnectTimeout"), Failure("InvalidURL")}
    \cup {Failure(e) : e \in TransientErrors}

Raised(error, attempts, open, slept) ==
    [kind |-> "raise", status |-> 0, error |-> error, attempts |-> attempts,
     client_open |-> open, slept |-> slept]

Returned(status, attempts, slept) ==
    [kind |-> "response", status |-> status, error |-> "none", attempts |-> attempts,
     client_open |-> TRUE, slept |-> slept]

\* The loop of forward from the given attempt on; script[k] is what the k-th
\* request to the upstream does, slept the back-off so far in tenths of a second.
\* The loop of forward with every exception handled as the retried ones are.
RECURSIVE AttemptsRetryAll(_, _, _, _, _, _)
AttemptsRetryAll(max_retries, script, attempt, last_error, open, slept) ==
    IF attempt >= max_retries
    THEN Raised(IF last_error = "none" THEN "Exception" ELSE last_error, attempt, open, slept)
    ELSE LET outcome == script[attempt + 1] IN
         IF outcome.kind = "response"
         THEN Returned(outcome.status, attempt + 1, slept)
         ELSE AttemptsRetryAll(max_retries, script, attempt + 1, outcome.kind, FALSE,
                               slept + (attempt + 1))

RECURSIVE Attempts(_, _, _, _, _, _)
Attempts(max_retries, script, attempt, last_error, open, slept) ==
    IF attempt >= max_retries
    THEN Raised(IF last_error = "none" THEN "Exception" ELSE last_error, attempt, open, slept)
    ELSE LET outcome == script[attempt + 1] IN
         IF outcome.kind = "response"
         THEN Returned(outcome.status, attempt + 1, slept)
         ELSE IF outcome.kind \in TransientErrors
         THEN Attempts(max_retries, script, attempt + 1, outcome.kind, FALSE, slept + (attempt + 1))
         ELSE Raised(outcome.kind, attempt + 1, TRUE, slept)

\* forward giving up one attempt early.
ForwardOneAttemptShort(max_retries, script, open) ==
    Attempts(IF max_retries > 0 THEN max_retries - 1 ELSE 0, script, 0, "none", open, 0)

\* UpstreamHTTPClient.forward(method, path, headers, content)
Forward(max_retries, script, open) == Attempts(max_retries, script, 0, "none", open, 0)

NoScript == [k \in 1..MaxRetries |-> Response(200)]

NoResult == [kind |-> "none", status |-> 0, error |-> "none", attempts |-> 0,
             client_open |-> FALSE, slept |-> 0]

InitFwd == [done |-> FALSE, max_retries |-> DefaultMaxRetries, script |-> NoScript, result |-> NoResult]

FwdInit ==
    /\ client_open = FALSE
    /\ fwd = InitFwd

\* A client with some retry limit facing an upstream with some behaviour.
FwdInputs ==
    /\ client_open = FALSE
    /\ \E max_retries \in 0..MaxRetries, script \in [1..MaxRetries -> Outcomes] :
          fwd = [InitFwd EXCEPT !.max_retries = max_retries, !.script = script]

\* One call of forward.
forward ==
    /\ ~fwd.done
    /\ LET result == Forward(fwd.max_retries, fwd.script, client_open) IN
          /\ fwd' = [fwd EXCEPT !.done = TRUE, !.result = result]
          /\ client_open' = result.client_open
    /\ UNCHANGED <<clock, fwdOthers>>

\* UpstreamHTTPClient.close()
close ==
    /\ client_open' = FALSE
    /\ UNCHANGED <<clock, fwd, fwdOthers>>

FwdNext == forward \/ close

(* ------------------ UpstreamHTTPClient, concurrent callers -------------- *)

\* The number of tasks calling forward at once.
NumTasks == 2

\* max_retries of the client the tasks share.
ClientRetries == 2

Tasks == 1..NumTasks

\* What a request in flight ends with.
RequestOutcomes == {"response", "transient", "other"}

\* self._client is None
NoClient == 0

\* A fresh client: no pooled client, nobody holds the lock.  Clients are numbered
\* in the order they are built.  closing and closed hold the clients whose
\* aclose() was begun and finished, leaked those dropped without being closed, late
\* those a request was issued on after their aclose() began.
InitPool ==
    [client |-> NoClient, built |-> 0, lock |-> 0, nulled |-> 0,
     closing |-> {}, closed |-> {}, leaked |-> {}, late |-> {}]

\* A task that has not called forward yet.
IdleTask ==
    [pc |-> "idle", attempt |-> 0, using |-> NoClient, via_lock |-> FALSE,
     last_error |-> "none", result |-> "none"]

ClientInit ==
    /\ pool = InitPool
    /\ tasks = [t \in Tasks |-> IdleTask]

\* The body of the lock of _ensure_client, always building a client.
EnsureUnderLockUnchecked(p) ==
    [p EXCEPT !.built = @ + 1, !.client = p.built + 1]

\* The body of the lock of _ensure_client: the second check and the construction.
EnsureUnderLock(p) ==
    IF p.client = NoClient
    THEN [p EXCEPT !.built = @ + 1, !.client = p.built + 1]
    ELSE p

\* self._client.request(...) is issued on the pooled client of the moment.
IssueRequest(p, task) ==
    [pool |-> [p EXCEPT !.late = IF p.client \in p.closing THEN @ \cup {p.client} ELSE @],
     task |-> [task EXCEPT !.pc = "waiting", !.using = p.client]]

\* forward is called: last_error = None, the loop is entered.
forward_begin(t) ==
    /\ tasks[t].pc = "idle"
    /\ tasks' = [tasks EXCEPT ![t].pc = IF ClientRetries > 0 THEN "ensure" ELSE "done",
                              ![t].result = IF ClientRetries > 0 THEN "none" ELSE "raise"]
    /\ UNCHANGED <<clock, pool, clientOthers>>

\* _ensure_client, the check outside the lock: with a pooled client the request
\* is issued at once, without one the task goes for the lock.
ensure_check(t) ==
    /\ tasks[t].pc = "ensure"
    /\ IF pool.client # NoClient
       THEN LET sent == IssueRequest(pool, tasks[t]) IN
               /\ pool' = sent.pool
               /\ tasks' = [tasks EXCEPT ![t] = sent.task]
       ELSE /\ tasks' = [tasks EXCEPT ![t].pc = "acquire"]
            /\ UNCHANGED pool
    /\ UNCHANGED <<clock, clientOthers>>

\* async with self._lock: the task gets the lock once it is free.
ensure_acquire(t) ==
    /\ tasks[t].pc = "acquire"
    /\ pool.lock = 0
    /\ pool' = [pool EXCEPT !.lock = t]
    /\ tasks' = [tasks EXCEPT ![t].pc = "locked", ![t].via_lock = TRUE]
    /\ UNCHANGED <<clock, clientOthers>>

\* The body of the lock, its release, and the request issued on the client.
ensure_locked(t) ==
    /\ tasks[t].pc = "locked"
    /\ pool.lock = t
    /\ LET sent == IssueRequest([EnsureUnderLock(pool) EXCEPT !.lock = 0], tasks[t]) IN
          /\ pool' = sent.pool
          /\ tasks' = [tasks EXCEPT ![t] = sent.task]
    /\ UNCHANGED <<clock, clientOthers>>

\* The request ends: a response is returned, a non-transport error is raised, a
\* transient transport error starts close(), which awaits aclose() of the pooled
\* client if there is one.
request_done(t, outcome) ==
    /\ tasks[t].pc = "waiting"
    /\ CASE outcome = "response" ->
              /\ tasks' = [tasks EXCEPT ![t].pc = "done", ![t].result = "response"]
              /\ UNCHANGED pool
         [] outcome = "other" ->
              /\ tasks' = [tasks EXCEPT ![t].pc = "done", ![t].result = "raise"]
              /\ UNCHANGED pool
         [] OTHER ->
              IF pool.client # NoClient
              THEN /\ pool' = [pool EXCEPT !.closing = @ \cup {pool.client}]
                   /\ tasks' = [tasks EXCEPT ![t].pc = "aclose", ![t].using = pool.client,
                                             ![t].last_error = "transient"]
              ELSE /\ tasks' = [tasks EXCEPT ![t].pc = "sleep", ![t].last_error = "transient"]
                   /\ UNCHANGED pool
    /\ UNCHANGED <<clock, clientOthers>>

\* close() after its await: the client it closed is closed, self._client = None.
close_done(t) ==
    /\ tasks[t].pc = "aclose"
    /\ LET closed == pool.closed \cup {tasks[t].using} IN
          pool' = [pool EXCEPT !.closed = closed,
                               !.leaked = IF pool.client # NoClient /\ pool.client \notin closed
                                          THEN @ \cup {pool.client} ELSE @,
                               !.nulled = @ + 1,
                               !.client = NoClient]
    /\ tasks' = [tasks EXCEPT ![t].pc = "sleep"]
    /\ UNCHANGED <<clock, clientOthers>>

\* The back-off is over: the next attempt, or last_error is raised.
backoff_done(t) ==
    /\ tasks[t].pc = "sleep"
    /\ LET attempt == tasks[t].attempt + 1 IN
          tasks' = [tasks EXCEPT ![t].attempt = attempt,
                                 ![t].pc = IF attempt < ClientRetries THEN "ensure" ELSE "done",
                                 ![t].result = IF attempt < ClientRetries THEN "none" ELSE "raise"]
    /\ UNCHANGED <<clock, pool, clientOthers>>

ClientNext ==
    \E t \in Tasks :
        \/ forward_begin(t)
        \/ ensure_check(t)
        \/ ensure_acquire(t)
        \/ ensure_locked(t)
        \/ \E outcome \in RequestOutcomes : request_done(t, outcome)
        \/ close_done(t)
        \/ backoff_done(t)

(* ------------------------------ proxy handler -------------------------- *)

\* The requests one run of the proxy handles.
MaxRequests == 3

\* The events the telemetry ring keeps (max_events).
MaxTelemetry == 1

\* The seconds the proxy is observed for.
ProxyHorizon == 2

\* a / b for fractions, b > 0.
FracDiv(a, b) == Frac(a.num * b.den, a.den * b.num)

\* compute_features averaging the global rate over the events, not over the IPs.
ComputeFeaturesPerEvent(snap) ==
    LET events  == IF snap.global_event_count > 1 THEN snap.global_event_count ELSE 1
        shared  == Frac(snap.global_request_rate.num, snap.global_request_rate.den * events)
        average == IF FracGeq(shared, Frac(1, 1000000)) THEN shared ELSE Frac(1, 1000000)
    IN  [ip_request_rate     |-> snap.ip_request_rate,
         global_request_rate |-> snap.global_request_rate,
         unique_ip_count     |-> snap.unique_ip_count,
         burst_score         |-> IF snap.ip_request_rate.num > 0
                                 THEN FracDiv(snap.ip_request_rate, average)
                                 ELSE Frac(0, 1)]

\* FeatureExtractor.compute_features, from the snapshot add_event returned.
ComputeFeatures(snap) ==
    LET unique  == IF snap.unique_ip_count > 1 THEN snap.unique_ip_count ELSE 1
        shared  == Frac(snap.global_request_rate.num, snap.global_request_rate.den * unique)
        \* max(global_request_rate / max(unique_ip_count, 1), 1e-6)
        average == IF FracGeq(shared, Frac(1, 1000000)) THEN shared ELSE Frac(1, 1000000)
    IN  [ip_request_rate     |-> snap.ip_request_rate,
         global_request_rate |-> snap.global_request_rate,
         unique_ip_count     |-> snap.unique_ip_count,
         burst_score         |-> IF snap.ip_request_rate.num > 0
                                 THEN FracDiv(snap.ip_request_rate, average)
                                 ELSE Frac(0, 1)]

\* The thresholds of the engine behind the handler, scaled to the short window of
\* the model: two requests of one IP in a window reach the per-IP rule.
ProxyThresholds ==
    [ip_rate |-> Frac(2, WindowSeconds), burst |-> Frac(1, 1),
     global_rate |-> Frac(MaxRequests + 2, WindowSeconds)]

\* Settings.proxy_cidrs and Settings.honor_x_forwarded_for as configured by default.
ProxyTrusted == <<>>

ProxyHonorXff == FALSE

\* TelemetryClient.record: appendleft, then pop from the right beyond max_events.
TelemetryRecord(events, event) ==
    LET all == <<event>> \o events
    IN  IF Len(all) > MaxTelemetry THEN SubSeq(all, 1, MaxTelemetry) ELSE all

\* The status the handler answers a denied request with.
DenyStatus(action) ==
    IF action = "rate_limit" THEN 429 ELSE 403

\* The status the handler answers with after forward returned or raised.
ForwardStatus(result) ==
    IF result.kind = "response" THEN result.status ELSE 500

InitHandled ==
    [count |-> 0, ip |-> None, judged |-> FALSE, verdict |-> NoVerdict, allowed |-> TRUE,
     forwarded |-> FALSE, exhausted |-> FALSE, status |-> 0, retry_after |-> <<>>]

ProxyInit ==
    /\ services_up = TRUE
    /\ telemetry = <<>>
    /\ handled = InitHandled

\* The proxy after startup: the services built or not, the upstream client with
\* its default retry limit or with a single attempt.
ProxyStart ==
    /\ services_up \in BOOLEAN
    /\ telemetry = <<>>
    /\ handled = InitHandled
    /\ client_open = FALSE
    /\ \E max_retries \in {1, DefaultMaxRetries} : fwd = [InitFwd EXCEPT !.max_retries = max_retries]

\* The requests the handler is exercised with: two clients, and no client at all.
ProxyRequests ==
    {Request([has_peer |-> TRUE, peer |-> Tok("ip", ip.ver, ip.n, FALSE, FALSE)], NoHeader) : ip \in StoreIPs}
    \cup {NoRequest}

ProxyHeaders ==
    {NoHeaders,
     [present |-> TRUE, key |-> <<"U", "a">>, value |-> <<"x", "S", "Q", "L", "M", "A", "P">>]}

\* What the upstream does to the attempts of one forward: answers, refuses two
\* connections and then answers, or refuses every connection.
ProxyScripts ==
    {[k \in 1..MaxRetries |-> Response(200)],
     [k \in 1..MaxRetries |-> IF k <= 2 THEN Failure("ConnectError") ELSE Response(200)],
     [k \in 1..MaxRetries |-> Failure("ConnectError")]}

\* Settings.max_request_size_kb * 1024, in bytes, scaled.
MaxRequestBytes == 2

\* The body lengths around the configured maximum.
BodyLengths == {MaxRequestBytes - 1, MaxRequestBytes, MaxRequestBytes + 1}

\* The requests the handler sees carry no body unless a run draws one.
BodyInit == body_len = 0

BodyStart == body_len \in BodyLengths

\* The tail of proxy_request: forward upstream and answer.
ForwardAndAnswer(req_ip, judged, verdict, script) ==
    LET result == Forward(fwd.max_retries, script, client_open) IN
        /\ fwd' = [fwd EXCEPT !.done = TRUE, !.script = script, !.result = result]
        /\ client_open' = result.client_open
        /\ handled' = [count |-> handled.count + 1, ip |-> req_ip, judged |-> judged,
                       verdict |-> verdict, allowed |-> TRUE, forwarded |-> TRUE,
                       exhausted |-> result.kind = "raise" /\ result.error \in TransientErrors,
                       status |-> ForwardStatus(result),
                       \* the headers of the upstream's answer, which sends none
                       retry_after |-> <<>>]

\* proxy_request(full_path, request, ...)
proxy_request(req, headers, script) ==
    /\ handled.count < MaxRequests
    /\ LET normalized_ip == extract_client_ip(req, ProxyTrusted, ProxyHonorXff) IN
       IF normalized_ip = None
       THEN \* HTTPException(400)
            /\ handled' = [InitHandled EXCEPT !.count = handled.count + 1, !.status = 400]
            /\ UNCHANGED <<storeVars, mitVars, blocklist_ips, telemetry, fwdVars>>
       ELSE IF services_up
       THEN LET sample   == [client_ip |-> normalized_ip, headers |-> headers,
                             \* body = await request.body(); content_length=len(body)
                             content_length |-> body_len]
                st       == PruneAll(RecordEvent(StoreState, normalized_ip, clock), clock)
                snap     == SnapshotOf(st, normalized_ip)
                features == ComputeFeatures(snap)
                verdict  == Evaluate(blocklist_ips, ProxyThresholds, sample, features, MlAbsent)
                outcome  == MitigationApply(rate_limited_ips, normalized_ip, verdict.action, clock)
            IN  /\ StoreCommit(st, "add_event", normalized_ip, clock, snap, TRUE)
                /\ rate_limited_ips' = outcome.limited
                /\ mitHist' = [op |-> "apply", ip |-> normalized_ip, action |-> verdict.action,
                               reason |-> verdict.reason,
                               result |-> MitigationResult(outcome.allowed),
                               now |-> clock, had |-> normalized_ip \in DOMAIN rate_limited_ips,
                               prior |-> IF normalized_ip \in DOMAIN rate_limited_ips
                                         THEN rate_limited_ips[normalized_ip] ELSE 0,
                               allowed |-> outcome.allowed]
                /\ telemetry' = TelemetryRecord(telemetry,
                                    [client_ip |-> normalized_ip, action |-> verdict.action,
                                     reason |-> verdict.reason,
                                     allowed |-> outcome.allowed, at |-> clock])
                /\ UNCHANGED blocklist_ips
                /\ IF ~outcome.allowed
                   THEN /\ handled' = [count |-> handled.count + 1, ip |-> normalized_ip,
                                       judged |-> TRUE, verdict |-> verdict, allowed |-> FALSE,
                                       forwarded |-> FALSE, exhausted |-> FALSE,
                                       status |-> DenyStatus(verdict.action),
                                       \* JSONResponse(status_code, content): no header
                                       retry_after |-> <<>>]
                        /\ UNCHANGED fwdVars
                   ELSE ForwardAndAnswer(normalized_ip, TRUE, verdict, script)
       ELSE \* demo mode: every request is forwarded
            /\ ForwardAndAnswer(normalized_ip, FALSE, NoVerdict, script)
            /\ UNCHANGED <<storeVars, mitVars, blocklist_ips, telemetry>>
    /\ UNCHANGED <<clock, services_up, proxyOthers>>

\* POST /admin/blocklist
add_blocklist(ip) ==
    /\ services_up
    /\ blocklist_ips' = blocklist_ips \cup {ip}
    /\ UNCHANGED <<clock, detected, detOthers>>

\* DELETE /admin/blocklist/{ip}
remove_blocklist(ip) ==
    /\ services_up
    /\ blocklist_ips' = blocklist_ips \ {ip}
    /\ UNCHANGED <<clock, detected, detOthers>>

ProxyTick ==
    /\ clock < Epoch + ProxyHorizon
    /\ clock' = clock + 1
    /\ UNCHANGED <<storeVars, storeOthers>>

\* The client the administrator blocklists and clears.
ProxyBlocklisted == {Addr(4, 5)}

ProxyNext ==
    \/ \E req \in ProxyRequests, headers \in ProxyHeaders, script \in ProxyScripts :
          proxy_request(req, headers, script) /\ UNCHANGED appVars
    \/ \E ip \in ProxyBlocklisted : add_blocklist(ip)
    \/ \E ip \in ProxyBlocklisted : remove_blocklist(ip)
    \/ ProxyTick

\* The handler receiving requests with bodies of the drawn length.
BodyNext ==
    \E req \in ProxyRequests, headers \in ProxyHeaders, script \in ProxyScripts :
        proxy_request(req, headers, script) /\ UNCHANGED appVars

(* --------------------- DDoSProtectionMiddleware ------------------------ *)

\* The requests one run of the application handles.
AppRequests == 2

\* The address the middleware gives a request without a peer ("127.0.0.1").
Loopback == Addr(4, 7)

\* {"risk_score": 0.0, "is_benign": True, "confidence": 1.0}, confidence in percent.
NeutralPrediction == [risk_score |-> 0, is_benign |-> TRUE, confidence |-> 100]

\* What one evaluation of the model does: a prediction, or an exception.
Evaluated(risk_score, is_benign) ==
    [kind |-> "result",
     prediction |-> [risk_score |-> risk_score, is_benign |-> is_benign, confidence |-> 90]]

EvaluationError == [kind |-> "raise", prediction |-> NeutralPrediction]

Evaluations ==
    {EvaluationError, Evaluated(10, TRUE), Evaluated(75, FALSE), Evaluated(95, FALSE)}

\* The future of a queued predict once the worker evaluated its item: the result
\* is set, or the exception.
WorkerFuture(evaluation) ==
    IF evaluation.kind = "raise"
    THEN [state |-> "exception", value |-> NeutralPrediction]
    ELSE [state |-> "result", value |-> evaluation.prediction]

\* PredictionService.predict on a miss, around one evaluation of the model: the
\* waiter gets what the worker put into its future, or, timed out, what its own
\* call of the model does; an exception of the model is raised to the caller on
\* both ways.
PredictAnswer(timed_out, evaluation) ==
    IF timed_out
    THEN evaluation
    ELSE LET future == WorkerFuture(evaluation) IN
         IF future.state = "exception"
         THEN [kind |-> "raise", prediction |-> NeutralPrediction]
         ELSE [kind |-> "result", prediction |-> future.value]

\* dispatch taking a failed predict for a request to fail.
MwPredictionUnguarded(answer) ==
    [failed |-> answer.kind = "raise", prediction |-> answer.prediction]

\* dispatch, the try around predict: the prediction, or the defaults.
MwPrediction(answer) ==
    [failed |-> FALSE,
     prediction |-> IF answer.kind = "raise" THEN NeutralPrediction ELSE answer.prediction]

\* analyze_request blocking from the suspicious band on (risk_score >= 70).
AnalyzeRequestBlockSuspicious(blocklist, rate_threshold, client_ip, ip_request_rate, prediction) ==
    IF client_ip \in blocklist
    THEN [detection_type |-> "BLOCKLISTED", should_block |-> TRUE,
          should_rate_limit |-> FALSE, block_reason |-> "IP address is blocklisted"]
    ELSE IF prediction.risk_score >= 70
    THEN [detection_type |-> "HIGH_RISK_ATTACK", should_block |-> TRUE,
          should_rate_limit |-> TRUE, block_reason |-> "High-risk traffic pattern detected"]
    ELSE IF ~prediction.is_benign
    THEN [detection_type |-> "ANOMALOUS_TRAFFIC", should_block |-> FALSE,
          should_rate_limit |-> FracGt(ip_request_rate, rate_threshold),
          block_reason |-> "none"]
    ELSE [detection_type |-> "NORMAL_TRAFFIC", should_block |-> FALSE,
          should_rate_limit |-> FALSE, block_reason |-> "none"]

\* DetectionEngine.analyze_request(client_ip, request_time, features, prediction)
AnalyzeRequest(blocklist, rate_threshold, client_ip, ip_request_rate, prediction) ==
    IF client_ip \in blocklist
    THEN [detection_type |-> "BLOCKLISTED", should_block |-> TRUE,
          should_rate_limit |-> FALSE, block_reason |-> "IP address is blocklisted"]
    ELSE IF prediction.risk_score >= 90
    THEN [detection_type |-> "HIGH_RISK_ATTACK", should_block |-> TRUE,
          should_rate_limit |-> TRUE, block_reason |-> "High-risk traffic pattern detected"]
    ELSE IF prediction.risk_score >= 70
    THEN [detection_type |-> "SUSPICIOUS_TRAFFIC", should_block |-> FALSE,
          should_rate_limit |-> TRUE, block_reason |-> "none"]
    ELSE IF ~prediction.is_benign
    THEN [detection_type |-> "ANOMALOUS_TRAFFIC", should_block |-> FALSE,
          should_rate_limit |-> FracGt(ip_request_rate, rate_threshold),
          block_reason |-> "none"]
    ELSE [detection_type |-> "NORMAL_TRAFFIC", should_block |-> FALSE,
          should_rate_limit |-> FALSE, block_reason |-> "none"]

\* dispatch, the client IP: the resolver's, else the peer's host, else 127.0.0.1.
MwClientIp(req) ==
    LET client_ip == extract_client_ip(req, ProxyTrusted, ProxyHonorXff) IN
        IF client_ip # None THEN client_ip
        ELSE IF req.has_peer /\ req.peer.kind = "ip" THEN Addr(req.peer.ver, req.peer.n)
        ELSE Loopback

\* The detail of the handler's answer to a denied request.
DenyDetail(action) ==
    CASE action = "rate_limit" -> "Rate limit applied"
      [] action = "block"      -> "Access blocked"
      [] action = "challenge"  -> "Challenge required"
      [] OTHER                 -> "Request denied"

InitMw ==
    [count |-> 0, client_ip |-> None, blocklisted |-> FALSE, evaluation |-> "none",
     predict |-> "none", prediction |-> NeutralPrediction, detection_type |-> "none",
     should_block |-> FALSE, should_rate_limit |-> FALSE,
     passed |-> FALSE, status |-> 0, detail |-> "none"]

AppInit == mw = InitMw

\* No DetectionResult: analyze_request did not return.
NoDetection ==
    [detection_type |-> "none", should_block |-> FALSE, should_rate_limit |-> FALSE,
     block_reason |-> "none"]

\* What dispatch answers without calling the application.
MwAnswer(client_ip, evaluation, answer, prediction, result, status, detail) ==
    [count |-> mw.count + 1, client_ip |-> client_ip,
     blocklisted |-> client_ip \in blocklist_ips, evaluation |-> evaluation.kind,
     predict |-> answer.kind, prediction |-> prediction,
     detection_type |-> result.detection_type,
     should_block |-> result.should_block, should_rate_limit |-> result.should_rate_limit,
     passed |-> FALSE, status |-> status, detail |-> detail]

\* dispatch letting a request through that is only to be rate limited.
MwDecisionBlockOnly(failed, result) ==
    IF failed THEN "error"
    ELSE IF result.should_block THEN "block"
    ELSE "pass"

\* dispatch, the branch taken after analyze_request: the except clause, the
\* answer to a blocked request, the answer to a rate-limited one, or call_next.
MwDecision(failed, result) ==
    IF failed THEN "error"
    ELSE IF result.should_block THEN "block"
    ELSE IF result.should_rate_limit THEN "rate_limit"
    ELSE "pass"

\* DDoSProtectionMiddleware.dispatch(request, call_next) for a proxied path;
\* call_next runs proxy_request.  The engine and the controller are those of
\* app.state: the handler's after a full startup, None in demo mode, where
\* engine.analyze_request raises and the request is answered 500.  The features
\* come from feature_mapping over ip_requests, which this path never fills, so
\* ip_request_rate is absent and counts as 0.  The calls of the controller in
\* the two refusing branches raise (apply_block does not exist, the others are
\* called with the wrong arguments) inside try blocks that pass.
dispatch(req, headers, script, timed_out, evaluation) ==
    /\ mw.count < AppRequests
    /\ LET client_ip == MwClientIp(req)
           answer    == PredictAnswer(timed_out, evaluation)
           guarded   == MwPrediction(answer)
           result    == AnalyzeRequest(blocklist_ips, ip_rate_threshold, client_ip,
                                       Frac(0, 1), guarded.prediction)
           decision  == MwDecision(guarded.failed \/ ~services_up, result)
           quiet     == UNCHANGED <<clock, appOthers>>
       IN  IF decision = "error"
           THEN /\ mw' = MwAnswer(client_ip, evaluation, answer, guarded.prediction,
                                  NoDetection, 500, "Internal server error")
                /\ quiet
           ELSE IF decision = "block"
           THEN /\ mw' = MwAnswer(client_ip, evaluation, answer, guarded.prediction,
                                  result, 429, result.block_reason)
                /\ quiet
           ELSE IF decision = "rate_limit"
           THEN /\ mw' = MwAnswer(client_ip, evaluation, answer, guarded.prediction,
                                  result, 429, "Rate Limited")
                /\ quiet
           ELSE /\ proxy_request(req, headers, script)
                /\ mw' = [MwAnswer(client_ip, evaluation, answer, guarded.prediction,
                                   result, handled'.status,
                                   IF handled'.judged /\ ~handled'.allowed
                                   THEN DenyDetail(handled'.verdict.action)
                                   ELSE "none")
                          EXCEPT !.passed = TRUE]

\* The upstream of the application answers every request.
AppScripts == {[k \in 1..MaxRetries |-> Response(200)]}

AppNext ==
    \/ \E req \in ProxyRequests, headers \in ProxyHeaders, script \in AppScripts,
          timed_out \in BOOLEAN, evaluation \in Evaluations :
          dispatch(req, headers, script, timed_out, evaluation)
    \/ \E ip \in ProxyBlocklisted : add_blocklist(ip)
    \/ \E ip \in ProxyBlocklisted : remove_blocklist(ip)
    \/ ProxyTick

(* ---------------------- proxy handler, concurrent requests ------------- *)

\* The requests that enter the handler in one run.
MaxArrivals == 3

\* The seconds the concurrent requests are observed for.
HandlerHorizon == 1

\* max_events of the ring the concurrent requests are recorded in.
RingSize == 2

\* TelemetryClient.record on a ring of max_events events: appendleft, then pop
\* from the right while the ring is too long.
RECURSIVE PopWhileLonger(_, _)
PopWhileLonger(events, max_events) ==
    IF Len(events) > max_events /\ Len(events) > 0
    THEN PopWhileLonger(SubSeq(events, 1, Len(events) - 1), max_events)
    ELSE events

RingRecord(events, event, max_events) == PopWhileLonger(<<event>> \o events, max_events)

HandlerInit ==
    /\ pending = {}
    /\ arrivals = 0
    /\ seen = <<>>
    /\ ring = <<>>

\* proxy_request up to 'await request.body()': the time of arrival is taken, the
\* client IP resolved, and the task waits for the body.
request_arrives(ip) ==
    /\ arrivals < MaxArrivals
    /\ arrivals' = arrivals + 1
    /\ pending' = pending \cup {[id |-> arrivals + 1, ip |-> ip, start_time |-> clock]}
    /\ UNCHANGED <<clock, seen, ring, handlerOthers>>

\* proxy_request from the return of 'await request.body()' on: the bodies arrive
\* in any order; compute_features, evaluate, apply and record follow without
\* the task being suspended (their locks are free, their bodies await nothing).
body_received(r) ==
    /\ r \in pending
    /\ LET sample   == [client_ip |-> r.ip, headers |-> NoHeaders]
           st       == PruneAll(RecordEvent(StoreState, r.ip, clock), clock)
           snap     == SnapshotOf(st, r.ip)
           features == ComputeFeatures(snap)
           verdict  == Evaluate(blocklist_ips, ProxyThresholds, sample, features, MlAbsent)
           outcome  == MitigationApply(rate_limited_ips, r.ip, verdict.action, clock)
       IN  /\ StoreCommit(st, "add_event", r.ip, clock, snap, TRUE)
           /\ rate_limited_ips' = outcome.limited
           /\ mitHist' = [op |-> "apply", ip |-> r.ip, action |-> verdict.action,
                          reason |-> verdict.reason,
                          result |-> MitigationResult(outcome.allowed),
                          now |-> clock, had |-> r.ip \in DOMAIN rate_limited_ips,
                          prior |-> IF r.ip \in DOMAIN rate_limited_ips
                                    THEN rate_limited_ips[r.ip] ELSE 0,
                          allowed |-> outcome.allowed]
           /\ ring' = RingRecord(ring,
                          [client_ip |-> r.ip, action |-> verdict.action,
                           allowed |-> outcome.allowed, at |-> clock,
                           start_time |-> r.start_time],
                          RingSize)
           /\ seen' = Append(seen, [ip |-> r.ip, start_time |-> r.start_time, at |-> clock,
                                    action |-> verdict.action, allowed |-> outcome.allowed])
    /\ pending' = pending \ {r}
    /\ UNCHANGED <<clock, arrivals, pipelineOthers>>

HandlerTick ==
    /\ clock < Epoch + HandlerHorizon
    /\ clock' = clock + 1
    /\ UNCHANGED <<handlerVars, handlerOthers>>

HandlerNext ==
    \/ \E ip \in StoreIPs : request_arrives(ip)
    \/ \E r \in pending : body_received(r)
    \/ HandlerTick

(* ---------------------- prediction service and caches ------------------ *)

\* ModelCache._ttl, in seconds.
CacheTtl == 2

\* ModelCache._max_size
CacheMaxSize == 2

\* maxsize of the lru_cache of _cached_predict.
LruMaxSize == 2

\* The seconds the service is observed for, and the predict calls it serves.
CacheHorizon == 4

MaxLookups == 3

\* The times the model is retrained.
MaxTrainings == 1

\* SENSITIVITY_THRESHOLDS, confidence in percent.
SENSITIVITY_THRESHOLDS ==
    [low    |-> [confidence_threshold |-> 85, risk_score_threshold |-> 85],
     medium |-> [confidence_threshold |-> 75, risk_score_threshold |-> 75],
     high   |-> [confidence_threshold |-> 65, risk_score_threshold |-> 65]]

\* The feature dicts and sensitivity levels the service is asked about.
CacheFeatures == {"quiet", "flood"}

CacheLevels == {"medium", "high"}

\* _generate_key / (_feature_hash, sensitivity_level): equal exactly for equal
\* features and equal levels.
CacheKey(features, level) == [features |-> features, level |-> level]

\* A fitted classifier gives every feature dict the probability, in percent, of
\* the malicious class; training fits another one.
Classifiers == [CacheFeatures -> {10, 70}]

\* predict calling benign what is confident and under the risk threshold.
ClassifyConfidentBenign(fitted, features, level) ==
    LET risk_score == fitted[features]
        confidence == IF risk_score >= 100 - risk_score THEN risk_score ELSE 100 - risk_score
        thresholds == SENSITIVITY_THRESHOLDS[level]
    IN  [is_benign |-> /\ confidence >= thresholds.confidence_threshold
                       /\ risk_score < thresholds.risk_score_threshold,
         confidence |-> confidence, risk_score |-> risk_score, sensitivity_level |-> level]

\* The result dict of DDoSDetectionModel.predict, from the classifier's answer.
Classify(fitted, features, level) ==
    LET risk_score == fitted[features]
        confidence == IF risk_score >= 100 - risk_score THEN risk_score ELSE 100 - risk_score
        thresholds == SENSITIVITY_THRESHOLDS[level]
        is_attack  == /\ confidence >= thresholds.confidence_threshold
                      /\ risk_score >= thresholds.risk_score_threshold
    IN  [is_benign |-> ~is_attack, confidence |-> confidence, risk_score |-> risk_score,
         sensitivity_level |-> level]

\* The positions of a key in a sequence of cache entries.
Positions(entries, key) == {i \in DOMAIN entries : entries[i].key = key}

Without(entries, i) == SubSeq(entries, 1, i - 1) \o SubSeq(entries, i + 1, Len(entries))

\* ModelCache.get: the entry if present and younger than the ttl; an expired
\* entry is deleted.
CacheGet(cache, key, now) ==
    IF Positions(cache, key) = {} THEN [hit |-> FALSE, at |-> 0, cache |-> cache]
    ELSE LET i == CHOOSE j \in Positions(cache, key) : TRUE IN
         IF now - cache[i].timestamp < CacheTtl
         THEN [hit |-> TRUE, at |-> cache[i].timestamp, cache |-> cache]
         ELSE [hit |-> FALSE, at |-> 0, cache |-> Without(cache, i)]

\* min(self._cache.keys(), key=timestamp): the first entry of the least timestamp.
Oldest(cache) ==
    CHOOSE i \in DOMAIN cache :
        /\ \A j \in DOMAIN cache : cache[i].timestamp <= cache[j].timestamp
        /\ \A j \in 1..(i - 1) : cache[j].timestamp > cache[i].timestamp

\* ModelCache.put: evict the oldest entry of a full cache, then store.
CachePut(cache, key, prediction, now) ==
    LET room  == IF Len(cache) >= CacheMaxSize THEN Without(cache, Oldest(cache)) ELSE cache
        entry == [key |-> key, timestamp |-> now, prediction |-> prediction]
    IN  IF Positions(room, key) = {} THEN Append(room, entry)
        ELSE [room EXCEPT ![CHOOSE j \in Positions(room, key) : TRUE] = entry]

\* DDoSDetectionModel.predict(features, sensitivity_level) for one feature dict.
ModelPredict(fitted, cache, features, level, now) ==
    LET key    == CacheKey(features, level)
        cached == CacheGet(cache, key, now)
        result == Classify(fitted, features, level)
    IN  IF cached.hit
        THEN [prediction |-> cache[CHOOSE j \in Positions(cache, key) : TRUE].prediction,
              from |-> "model_cache", at |-> cached.at, cache |-> cached.cache, stored |-> FALSE]
        ELSE [prediction |-> result, from |-> "model", at |-> now,
              cache |-> CachePut(cached.cache, key, result, now), stored |-> TRUE]

\* lru_cache: a hit moves the entry to the most recent end.
LruTouch(entries, i) == Without(entries, i) \o <<entries[i]>>

\* lru_cache: a computed value is stored, the least recently used entry making room.
LruInsert(entries, key, prediction, now) ==
    LET all == Append(entries, [key |-> key, prediction |-> prediction, at |-> now])
    IN  IF Len(all) > LruMaxSize THEN Tail(all) ELSE all

NoPrediction == [is_benign |-> TRUE, confidence |-> 0, risk_score |-> 0, sensitivity_level |-> "none"]

InitCacheHist ==
    [count |-> 0, key |-> CacheKey("none", "none"), now |-> 0, from |-> "none",
     at |-> 0, prediction |-> NoPrediction, trained |-> 0]

CacheInit ==
    /\ classifier = [f \in CacheFeatures |-> 10]
    /\ model_cache = <<>>
    /\ feature_store = {}
    /\ lru = <<>>
    /\ last_stored = EmptyDict
    /\ cacheHist = InitCacheHist

\* The service as constructed, its model fitted.
CacheStart ==
    /\ classifier \in Classifiers
    /\ model_cache = <<>>
    /\ feature_store = {}
    /\ lru = <<>>
    /\ last_stored = EmptyDict
    /\ cacheHist = InitCacheHist

\* The body of _cached_predict run for a key the lru_cache does not hold, after
\* which the lru_cache holds the value.
CachedPredictMiss(features, level) ==
    LET key == CacheKey(features, level)
        r   == ModelPredict(classifier, model_cache, features, level, clock)
    IN  /\ model_cache' = r.cache
        /\ lru' = LruInsert(lru, key, r.prediction, clock)
        /\ last_stored' = DictPut(last_stored, key, r.prediction)
        /\ cacheHist' = [cacheHist EXCEPT !.count = @ + 1, !.key = key, !.now = clock,
                             !.from = r.from, !.at = r.at, !.prediction = r.prediction]

\* PredictionService.predict(features, sensitivity_level); timed_out tells whether
\* the batched answer failed to arrive within batch_timeout.
service_predict(features, level, timed_out) ==
    /\ cacheHist.count < MaxLookups
    /\ LET key == CacheKey(features, level) IN
       IF Positions(lru, key) # {}
       THEN \* _cached_predict answers from the lru_cache
            LET i == CHOOSE j \in Positions(lru, key) : TRUE IN
                /\ lru' = LruTouch(lru, i)
                /\ cacheHist' = [cacheHist EXCEPT !.count = @ + 1, !.key = key, !.now = clock,
                                     !.from = "lru", !.at = lru[i].at,
                                     !.prediction = lru[i].prediction]
                /\ UNCHANGED <<model_cache, feature_store, last_stored>>
       ELSE IF features \in feature_store
       THEN \* _cached_predict finds the features and asks the model
            /\ CachedPredictMiss(features, level)
            /\ UNCHANGED feature_store
       ELSE \* KeyError: the features are stored and the request is queued
            /\ feature_store' = feature_store \cup {features}
            /\ IF ~timed_out
               THEN \* _process_batch answers through _cached_predict
                    CachedPredictMiss(features, level)
               ELSE \* asyncio.TimeoutError: the model is asked directly
                    LET r == ModelPredict(classifier, model_cache, features, level, clock) IN
                        /\ model_cache' = r.cache
                        /\ last_stored' = IF r.stored THEN DictPut(last_stored, key, r.prediction)
                                          ELSE last_stored
                        /\ cacheHist' = [cacheHist EXCEPT !.count = @ + 1, !.key = key,
                                             !.now = clock, !.from = r.from, !.at = r.at,
                                             !.prediction = r.prediction]
                        /\ UNCHANGED lru
    /\ UNCHANGED <<clock, classifier, cacheOthers>>

\* DDoSDetectionModel.train: another classifier is fitted, the ModelCache cleared.
train(fitted) ==
    /\ cacheHist.trained < MaxTrainings
    /\ classifier' = fitted
    /\ model_cache' = <<>>
    /\ cacheHist' = [cacheHist EXCEPT !.trained = @ + 1]
    /\ UNCHANGED <<clock, feature_store, lru, last_stored, cacheOthers>>

CacheTick ==
    /\ clock < CacheHorizon
    /\ clock' = clock + 1
    /\ UNCHANGED <<cacheVars, cacheOthers>>

CacheNext ==
    \/ \E features \in CacheFeatures, level \in CacheLevels, timed_out \in BOOLEAN :
          service_predict(features, level, timed_out)
    \/ \E fitted \in Classifiers : train(fitted)
    \/ CacheTick

(* ------------------ PredictionService, concurrent callers -------------- *)

\* The tasks calling predict at once.
NumCallers == 2

\* PredictionService._batch_size
BatchSize == 2

Callers == 1..NumCallers

\* The sensitivity level of the concurrent calls.
BatchLevels == {"medium"}

BatchKeys == {CacheKey(f, l) : f \in CacheFeatures, l \in BatchLevels}

\* A task that has not called predict yet.
IdleCaller ==
    [pc |-> "idle", key |-> CacheKey("none", "none"), future |-> "none",
     value |-> NoPrediction, outcome |-> "none", via |-> "none", prediction |-> NoPrediction]

\* The service as constructed: an empty queue, no worker.  evals counts the runs
\* of the classifier per key, failing holds the features the model raises on.
InitSvc ==
    [queue |-> <<>>, processing |-> FALSE, workers |-> <<>>,
     evals |-> [k \in BatchKeys |-> 0], failing |-> {}]

BatchInit ==
    /\ svc = InitSvc
    /\ callers = [c \in Callers |-> IdleCaller]

\* The service in front of a model that evaluates some features and raises on others.
BatchStart ==
    /\ \E failing \in SUBSET CacheFeatures : svc = [InitSvc EXCEPT !.failing = failing]
    /\ callers = [c \in Callers |-> IdleCaller]

\* A fitted classifier that tells the two feature dicts apart.
BatchClassifier == [f \in CacheFeatures |-> IF f = "flood" THEN 70 ELSE 10]

\* The caches of the service as constructed, in front of that classifier.
BatchCacheStart ==
    /\ classifier = BatchClassifier
    /\ model_cache = <<>>
    /\ feature_store = {}
    /\ lru = <<>>
    /\ last_stored = EmptyDict
    /\ cacheHist = InitCacheHist

\* DDoSDetectionModel.predict(features, sensitivity_level): the cached result, or
\* an evaluation, which raises or is cached and returned.
BatchModelPredict(fitted, cache, failing, features, level, now) ==
    LET cached == CacheGet(cache, CacheKey(features, level), now) IN
        IF ~cached.hit /\ features \in failing
        THEN [kind |-> "raise", prediction |-> NoPrediction, cache |-> cached.cache,
              evaluated |-> TRUE]
        ELSE LET r == ModelPredict(fitted, cache, features, level, now) IN
             [kind |-> "result", prediction |-> r.prediction, cache |-> r.cache,
              evaluated |-> r.from = "model"]

\* self._cached_predict(feature_hash, sensitivity_level): a hit of the lru_cache,
\* KeyError for features not stored, else the model's answer, kept when it is a result.
CachedPredict(entries, cache, store, fitted, failing, features, level, now) ==
    LET key == CacheKey(features, level) IN
        IF Positions(entries, key) # {}
        THEN LET i == CHOOSE j \in Positions(entries, key) : TRUE IN
             [kind |-> "result", prediction |-> entries[i].prediction,
              lru |-> LruTouch(entries, i), cache |-> cache, evaluated |-> FALSE]
        ELSE IF features \notin store
        THEN [kind |-> "KeyError", prediction |-> NoPrediction,
              lru |-> entries, cache |-> cache, evaluated |-> FALSE]
        ELSE LET r == BatchModelPredict(fitted, cache, failing, features, level, now) IN
             [kind |-> r.kind, prediction |-> r.prediction,
              lru |-> IF r.kind = "result" THEN LruInsert(entries, key, r.prediction, now)
                      ELSE entries,
              cache |-> r.cache, evaluated |-> r.evaluated]

Counted(evals, key, evaluated) ==
    IF evaluated THEN [evals EXCEPT ![key] = @ + 1] ELSE evals

\* A call of predict that ended.
Ended(caller, key, kind, prediction, via) ==
    [caller EXCEPT !.pc = "done", !.key = key, !.outcome = kind,
                   !.prediction = prediction, !.via = via]

\* predict up to its first suspension: the answer of _cached_predict, or on
\* KeyError the features are stored, the request is queued with a new future, a
\* worker task is created unless one is processing, and the task waits.
predict_begin(c, features, level) ==
    /\ callers[c].pc = "idle"
    /\ LET key == CacheKey(features, level)
           r   == CachedPredict(lru, model_cache, feature_store, classifier, svc.failing,
                                features, level, clock)
       IN  IF r.kind = "KeyError"
           THEN /\ feature_store' = feature_store \cup {features}
                /\ callers' = [callers EXCEPT ![c].pc = "waiting", ![c].key = key,
                                              ![c].future = "pending"]
                /\ svc' = [svc EXCEPT
                             !.queue = Append(@, [key |-> key, caller |-> c]),
                             !.workers = IF ~svc.processing
                                         THEN Append(@, [pc |-> "created", batch |-> <<>>])
                                         ELSE @]
                /\ UNCHANGED <<lru, model_cache>>
           ELSE /\ callers' = [callers EXCEPT ![c] = Ended(@, key, r.kind, r.prediction, "cached")]
                /\ lru' = r.lru
                /\ model_cache' = r.cache
                /\ svc' = [svc EXCEPT !.evals = Counted(@, key, r.evaluated)]
                /\ UNCHANGED feature_store
    /\ UNCHANGED <<clock, classifier, last_stored, cacheHist, batchOthers>>

\* _process_batch begins to run: self._processing = True, then it waits for an item.
worker_start(w) ==
    /\ svc.workers[w].pc = "created"
    /\ svc' = [svc EXCEPT !.processing = TRUE, !.workers[w].pc = "getting"]
    /\ UNCHANGED <<clock, callers, cacheVars, batchOthers>>

\* The first item of a batch is taken from the queue.
worker_get(w) ==
    /\ svc.workers[w].pc = "getting"
    /\ svc.queue # <<>>
    /\ svc' = [svc EXCEPT !.queue = Tail(@), !.workers[w].pc = "filling",
                          !.workers[w].batch = <<Head(svc.queue)>>]
    /\ UNCHANGED <<clock, callers, cacheVars, batchOthers>>

\* A further item arrives within the short timeout while the batch is not full.
worker_fill(w) ==
    /\ svc.workers[w].pc = "filling"
    /\ Len(svc.workers[w].batch) < BatchSize
    /\ svc.queue # <<>>
    /\ svc' = [svc EXCEPT !.queue = Tail(@),
                          !.workers[w].batch = Append(@, Head(svc.queue))]
    /\ UNCHANGED <<clock, callers, cacheVars, batchOthers>>

\* The loop over the batch: every future not done gets the answer of
\* _cached_predict, a result or an exception.
RECURSIVE ProcessBatch(_, _)
ProcessBatch(batch, st) ==
    IF batch = <<>> THEN st
    ELSE LET item == Head(batch)
             c    == item.caller
         IN  IF st.callers[c].future # "pending"
             THEN ProcessBatch(Tail(batch), st)
             ELSE LET r == CachedPredict(st.lru, st.cache, feature_store, classifier,
                                         svc.failing, item.key.features, item.key.level, clock)
                  IN  ProcessBatch(Tail(batch),
                          [lru     |-> r.lru,
                           cache   |-> r.cache,
                           evals   |-> Counted(st.evals, item.key, r.evaluated),
                           callers |-> [st.callers EXCEPT
                                          ![c].future = IF r.kind = "result" THEN "result"
                                                        ELSE "exception",
                                          ![c].value = r.prediction]])

\* The batch is full or no further item came in time: it is processed, and the
\* worker waits for the next first item.
worker_process(w) ==
    /\ svc.workers[w].pc = "filling"
    /\ Len(svc.workers[w].batch) >= BatchSize \/ svc.queue = <<>>
    /\ LET st == ProcessBatch(svc.workers[w].batch,
                              [lru |-> lru, cache |-> model_cache, evals |-> svc.evals,
                               callers |-> callers])
       IN  /\ lru' = st.lru
           /\ model_cache' = st.cache
           /\ callers' = st.callers
           /\ svc' = [svc EXCEPT !.evals = st.evals, !.workers[w].pc = "getting",
                                 !.workers[w].batch = <<>>]
    /\ UNCHANGED <<clock, classifier, feature_store, last_stored, cacheHist, batchOthers>>

\* wait_for returns what the worker put into the future: predict returns the
\* result or raises the exception.
predict_resume(c) ==
    /\ callers[c].pc = "waiting"
    /\ callers[c].future \in {"result", "exception"}
    /\ callers' = [callers EXCEPT ![c] =
                     Ended(@, @.key, IF @.future = "result" THEN "result" ELSE "raise",
                           @.value, "future")]
    /\ UNCHANGED <<clock, svc, cacheVars, batchOthers>>

\* What the waiter does when batch_timeout passed with its future pending.
AfterTimeoutKeepWaiting(caller, r) == caller

\* asyncio.TimeoutError: the future is cancelled and predict returns what its
\* own call of the model returns, or raises what it raises.
AfterTimeout(caller, r) ==
    Ended([caller EXCEPT !.future = "cancelled"], caller.key, r.kind, r.prediction, "fallback")

predict_timeout(c) ==
    /\ callers[c].pc = "waiting"
    /\ callers[c].future = "pending"
    /\ LET key == callers[c].key
           r   == BatchModelPredict(classifier, model_cache, svc.failing,
                                    key.features, key.level, clock)
           now == AfterTimeout(callers[c], r)
       IN  /\ callers' = [callers EXCEPT ![c] = now]
           /\ model_cache' = IF now.pc = "done" THEN r.cache ELSE model_cache
           /\ svc' = [svc EXCEPT !.evals = Counted(@, key, r.evaluated /\ now.pc = "done")]
    /\ UNCHANGED <<clock, classifier, feature_store, lru, last_stored, cacheHist, batchOthers>>

BatchNext ==
    \/ \E c \in Callers, features \in CacheFeatures, level \in BatchLevels :
          predict_begin(c, features, level)
    \/ \E w \in DOMAIN svc.workers : worker_start(w)
    \/ \E w \in DOMAIN svc.workers : worker_get(w)
    \/ \E w \in DOMAIN svc.workers : worker_fill(w)
    \/ \E w \in DOMAIN svc.workers : worker_process(w)
    \/ \E c \in Callers : predict_resume(c)
    \/ \E c \in Callers : predict_timeout(c)

\* The event loop resumes a task whose future is done and fires the timer of
\* wait_for: a waiting call does not wait for ever.
BatchFairness ==
    \A c \in Callers : WF_vars(predict_resume(c) \/ predict_timeout(c))

(* ------------------------- TelemetryClient, the ring ------------------- *)

MaxRecords == 4

\* The actions and outcomes of the events handed to record.
RingActions == {"allow", "block"}

\* limit: Optional[int] of recent_events.
NoLimit == [given |-> FALSE, n |-> 0]

Limit(n) == [given |-> TRUE, n |-> n]

Limits == {NoLimit} \cup {Limit(n) : n \in 0..MaxRecords}

InitRecent == [called |-> FALSE, limit |-> NoLimit, held |-> <<>>, events |-> <<>>]

RingInit ==
    /\ tel_events = <<>>
    /\ recorded = <<>>
    /\ recent = InitRecent

\* events[:limit] of a list.
ListPrefix(list, n) == SubSeq(list, 1, IF n < Len(list) THEN n ELSE Len(list))

\* The answer of recent_events: a copy of the ring, cut when 'if limit:' holds.
RecentEvents(ring_events, limit) ==
    IF limit.given /\ limit.n # 0 THEN ListPrefix(ring_events, limit.n) ELSE ring_events

\* await telemetry.record(sample, verdict, result) in a ring of RingSize events.
ring_record(action) ==
    /\ Len(recorded) < MaxRecords
    /\ LET event == [seq |-> Len(recorded) + 1, action |-> action,
                     allowed |-> action = "allow"]
       IN  /\ tel_events' = RingRecord(tel_events, event, RingSize)
           /\ recorded' = Append(recorded, event)
    /\ UNCHANGED <<clock, recent, ringOthers>>

\* await telemetry.recent_events(limit).
recent_events(limit) ==
    /\ recent' = [called |-> TRUE, limit |-> limit, held |-> tel_events,
                  events |-> RecentEvents(tel_events, limit)]
    /\ UNCHANGED <<clock, tel_events, recorded, ringOthers>>

RingNext ==
    \/ \E action \in RingActions : ring_record(action)
    \/ \E limit \in Limits : recent_events(limit)

(* ------------------- DDoSDetectionModel.predict, scoring --------------- *)

\* The sensitivity levels of SENSITIVITY_THRESHOLDS.
SensitivityLevels == {"low", "medium", "high"}

\* The classifier's probability of the attack class, in percent: every fifth
\* value, and the values next to the thresholds of the profiles.
AttackPercents ==
    {5 * k : k \in 0..20} \cup {64, 66, 74, 76, 84, 86} \cup {36, 34, 26, 24, 16, 14}

InitScored == [done |-> FALSE, risk |-> 0, level |-> "medium", prediction |-> NoPrediction]

ScoreInit == scored = InitScored

\* A feature dict the classifier gives some probability, asked under some profile.
ScoreInputs ==
    \E risk \in AttackPercents, level \in SensitivityLevels :
        scored = [InitScored EXCEPT !.risk = risk, !.level = level]

\* self.model.predict_proba and the thresholds applied to it.
score ==
    /\ ~scored.done
    /\ scored' = [scored EXCEPT
            !.done = TRUE,
            !.prediction = Classify([f \in {"sample"} |-> scored.risk], "sample", scored.level)]
    /\ UNCHANGED <<clock, scoreOthers>>

ScoreNext == score

(* ------------------- DetectionEngine.analyze_request ------------------- *)

\* The risk scores around the bands of analyze_request.
AnalysisRisks == {0, 50, 69, 70, 71, 89, 90, 91, 100}

\* features['ip_request_rate'] under, at and over ip_rate_threshold.
AnalysisRates == {Frac(0, 1), ip_rate_threshold, Frac(ip_rate_threshold.num + 1, ip_rate_threshold.den)}

InitAnalysed ==
    [done |-> FALSE, client_ip |-> Addr(4, 1), blocklist |-> {}, rate |-> Frac(0, 1),
     prediction |-> NeutralPrediction, result |-> NoDetection]

AnalysisInit == analysed = InitAnalysed

\* A client on the blocklist or not, its rate, and a prediction.
AnalysisInputs ==
    \E ip \in StoreIPs, blocklist \in SUBSET ProxyBlocklisted, rate \in AnalysisRates,
       risk_score \in AnalysisRisks, is_benign \in BOOLEAN :
        analysed = [InitAnalysed EXCEPT
                       !.client_ip = ip, !.blocklist = blocklist, !.rate = rate,
                       !.prediction = [risk_score |-> risk_score, is_benign |-> is_benign,
                                       confidence |-> 90]]

\* One call of analyze_request.
analyze_request ==
    /\ ~analysed.done
    /\ analysed' = [analysed EXCEPT
            !.done = TRUE,
            !.result = AnalyzeRequest(analysed.blocklist, ip_rate_threshold, analysed.client_ip,
                                      analysed.rate, analysed.prediction)]
    /\ UNCHANGED <<clock, analysisOthers>>

AnalysisNext == analyze_request

(* ----------------------------- AlertingEngine -------------------------- *)

\* dedup_window of the engine, in seconds.
DedupWindow == 2

\* The calls of record_request in one run.
MaxAlertCalls == 3

\* The seconds the engine is observed for.
AlertHorizon == 2

\* request_count from which a block rate counts as a surge (10), scaled.
SurgeMinRequests == 2

\* The requests per minute beyond which traffic is a spike (100), scaled.
SpikeRate == 2

\* The entries of pattern_history compared for a change of pattern (5), scaled.
PatternWindow == 3

\* The detection types and risk scores record_request is called with.
AlertObservations ==
    {[risk_score |-> 10, detection_type |-> "NORMAL_TRAFFIC"],
     [risk_score |-> 75, detection_type |-> "SUSPICIOUS_TRAFFIC"],
     [risk_score |-> 95, detection_type |-> "HIGH_RISK_ATTACK"]}

\* AlertPattern(ip=client_ip) at time now.
NewPattern(now) ==
    [request_count |-> 0, blocked_count |-> 0, first_request_time |-> now,
     last_request_time |-> now, pattern_history |-> <<>>]

\* AlertPattern.block_rate >= 80
BlockRateSurge(pattern) ==
    /\ pattern.request_count > 0
    /\ pattern.blocked_count * 100 >= 80 * pattern.request_count

\* AlertPattern.requests_per_minute > SpikeRate, the duration being
\* max(1, seconds / 60) minutes.
TrafficSpike(pattern) ==
    LET seconds == pattern.last_request_time - pattern.first_request_time IN
        IF seconds > 60
        THEN pattern.request_count * 60 > SpikeRate * seconds
        ELSE pattern.request_count > SpikeRate

\* The last PatternWindow entries of pattern_history hold more than two types.
PatternChange(pattern) ==
    LET h == pattern.pattern_history IN
        /\ Len(h) >= PatternWindow
        /\ Cardinality({h[i] : i \in (Len(h) - PatternWindow + 1)..Len(h)}) > 2

\* The alert types _check_for_alerts tries, in its order.
AlertChecks == <<"attack_detected", "block_rate_surge", "traffic_spike", "pattern_change">>

\* The condition under which _check_for_alerts calls _create_alert for a type.
CheckHolds(alert_type, pattern, risk_score, detection_type) ==
    CASE alert_type = "attack_detected" ->
             risk_score >= 90 /\ detection_type = "HIGH_RISK_ATTACK"
      [] alert_type = "block_rate_surge" ->
             BlockRateSurge(pattern) /\ pattern.request_count >= SurgeMinRequests
      [] alert_type = "traffic_spike" -> TrafficSpike(pattern)
      [] OTHER -> PatternChange(pattern)

\* _create_alert with the deduplication test made non-strict (<=).
DedupedInclusive(last_alert_time, alert_type, client_ip, now) ==
    /\ <<alert_type, client_ip>> \in DOMAIN last_alert_time
    /\ now - last_alert_time[<<alert_type, client_ip>>] <= DedupWindow

\* _create_alert, the deduplication window: last_alert_time holds the key (it
\* is datetime.min otherwise) and less than dedup_window seconds have passed.
Deduped(last_alert_time, alert_type, client_ip, now) ==
    /\ <<alert_type, client_ip>> \in DOMAIN last_alert_time
    /\ now - last_alert_time[<<alert_type, client_ip>>] < DedupWindow

\* _check_for_alerts: the first type, in order, whose condition holds and whose
\* alert is not deduplicated; <<>> when there is none.
CheckForAlerts(last_alert_time, client_ip, pattern, risk_score, detection_type, now) ==
    LET fires == {i \in DOMAIN AlertChecks :
                     /\ CheckHolds(AlertChecks[i], pattern, risk_score, detection_type)
                     /\ ~Deduped(last_alert_time, AlertChecks[i], client_ip, now)}
    IN  IF fires = {} THEN <<>>
        ELSE <<AlertChecks[CHOOSE i \in fires : \A j \in fires : i <= j]>>

InitAlerting == [alerts |-> <<>>, last_alert_time |-> EmptyDict, ip_patterns |-> EmptyDict]

InitAlertCall ==
    [count |-> 0, client_ip |-> None, now |-> 0, risk_score |-> 0, detection_type |-> "none",
     deduped |-> {}, held |-> {}, returned |-> <<>>]

AlertInit ==
    /\ alerting = InitAlerting
    /\ alert_call = InitAlertCall

\* record_request(client_ip, was_blocked, risk_score, detection_type)
record_request(client_ip, was_blocked, observation) ==
    /\ alert_call.count < MaxAlertCalls
    /\ LET old     == IF client_ip \in DOMAIN alerting.ip_patterns
                      THEN alerting.ip_patterns[client_ip] ELSE NewPattern(clock)
           history == Append(old.pattern_history, observation.detection_type)
           pattern == [old EXCEPT
                          !.request_count = old.request_count + 1,
                          !.blocked_count = old.blocked_count + (IF was_blocked THEN 1 ELSE 0),
                          !.last_request_time = clock,
                          \* only the last PatternWindow entries are ever read
                          !.pattern_history =
                              IF Len(history) > PatternWindow
                              THEN SubSeq(history, Len(history) - PatternWindow + 1, Len(history))
                              ELSE history]
           created == CheckForAlerts(alerting.last_alert_time, client_ip, pattern,
                                     observation.risk_score, observation.detection_type, clock)
       IN  /\ alerting' =
                 [alerts |-> IF created = <<>> THEN alerting.alerts
                             ELSE Append(alerting.alerts,
                                         [alert_type |-> created[1], client_ip |-> client_ip,
                                          timestamp |-> clock]),
                  last_alert_time |-> IF created = <<>> THEN alerting.last_alert_time
                                      ELSE DictPut(alerting.last_alert_time,
                                                   <<created[1], client_ip>>, clock),
                  ip_patterns |-> DictPut(alerting.ip_patterns, client_ip, pattern)]
           /\ alert_call' =
                 [count |-> alert_call.count + 1, client_ip |-> client_ip, now |-> clock,
                  risk_score |-> observation.risk_score,
                  detection_type |-> observation.detection_type,
                  held |-> {t \in {AlertChecks[i] : i \in DOMAIN AlertChecks} :
                               CheckHolds(t, pattern, observation.risk_score,
                                          observation.detection_type)},
                  deduped |-> {t \in {AlertChecks[i] : i \in DOMAIN AlertChecks} :
                                  \E a \in {alerting.alerts[k] : k \in DOMAIN alerting.alerts} :
                                      /\ a.alert_type = t
                                      /\ a.client_ip = client_ip
                                      /\ clock - a.timestamp < DedupWindow},
                  returned |-> created]
    /\ UNCHANGED <<clock, alertOthers>>

AlertTick ==
    /\ clock < 1 + AlertHorizon
    /\ clock' = clock + 1
    /\ UNCHANGED <<alertVars, alertOthers>>

AlertNext ==
    \/ \E ip \in StoreIPs, was_blocked \in BOOLEAN, observation \in AlertObservations :
          record_request(ip, was_blocked, observation)
    \/ AlertTick

(* ------------- MitigationController, concurrent applications ---------- *)

\* The tasks that apply RATE_LIMIT verdicts at once.
NumAppliers == 2

\* The applications of one run.
MaxApplications == 3

\* The seconds the concurrent applications are observed for.
LimiterHorizon == 2

Appliers == 1..NumAppliers

IdleApplier == [pc |-> "idle", ip |-> None, now |-> 0, last_allowed |-> 0, calls |-> 0]

LimiterInit ==
    /\ appliers = [t \in Appliers |-> IdleApplier]
    /\ rl_lock = 0
    /\ grants = <<>>

\* The lock taken whoever holds it.
LockIgnored(holder) == TRUE

\* asyncio.Lock: it can be taken when nobody holds it.
LockFree(holder) == holder = 0

RECURSIVE SumCalls(_)
SumCalls(n) == IF n = 0 THEN 0 ELSE appliers[n].calls + SumCalls(n - 1)

\* apply(ip, verdict) with verdict.action RATE_LIMIT: the task reaches
\* 'async with self.lock'.
apply_begin(t, ip) ==
    /\ appliers[t].pc = "idle"
    /\ SumCalls(NumAppliers) < MaxApplications
    /\ appliers' = [appliers EXCEPT ![t].pc = "acquire", ![t].ip = ip,
                                    ![t].calls = appliers[t].calls + 1]
    /\ UNCHANGED <<clock, rl_lock, grants, mitVars, limiterOthers>>

\* async with self.lock: entered.
lock_acquire(t) ==
    /\ appliers[t].pc = "acquire"
    /\ LockFree(rl_lock)
    /\ rl_lock' = t
    /\ appliers' = [appliers EXCEPT ![t].pc = "locked"]
    /\ UNCHANGED <<clock, grants, mitVars, limiterOthers>>

\* now = time.time(); last_allowed = self.rate_limited_ips.get(ip, 0)
apply_read(t) ==
    /\ appliers[t].pc = "locked"
    /\ appliers' = [appliers EXCEPT
            ![t].pc = "read",
            ![t].now = clock,
            ![t].last_allowed = IF appliers[t].ip \in DOMAIN rate_limited_ips
                                THEN rate_limited_ips[appliers[t].ip] ELSE 0]
    /\ UNCHANGED <<clock, rl_lock, grants, mitVars, limiterOthers>>

\* if last_allowed < window_start: self.rate_limited_ips[ip] = now; return True
apply_decide(t) ==
    /\ appliers[t].pc = "read"
    /\ LET allowed == appliers[t].last_allowed < appliers[t].now - RateWindow IN
          /\ rate_limited_ips' = IF allowed
                                  THEN DictPut(rate_limited_ips, appliers[t].ip, appliers[t].now)
                                  ELSE rate_limited_ips
          /\ grants' = IF allowed
                        THEN Append(grants, [ip |-> appliers[t].ip, now |-> appliers[t].now])
                        ELSE grants
    /\ appliers' = [appliers EXCEPT ![t].pc = "unlock"]
    /\ UNCHANGED <<clock, rl_lock, mitHist, limiterOthers>>

\* The end of 'async with self.lock'.
lock_release(t) ==
    /\ appliers[t].pc = "unlock"
    /\ rl_lock' = 0
    /\ appliers' = [appliers EXCEPT ![t].pc = "idle"]
    /\ UNCHANGED <<clock, grants, mitVars, limiterOthers>>

LimiterTick ==
    /\ clock < Epoch + LimiterHorizon
    /\ clock' = clock + 1
    /\ UNCHANGED <<limiterVars, mitVars, limiterOthers>>

LimiterNext ==
    \/ \E t \in Appliers, ip \in StoreIPs : apply_begin(t, ip)
    \/ \E t \in Appliers : lock_acquire(t)
    \/ \E t \in Appliers : apply_read(t)
    \/ \E t \in Appliers : apply_decide(t)
    \/ \E t \in Appliers : lock_release(t)
    \/ LimiterTick

(* --------------------------- specifications --------------------------- *)

\* Every component as constructed.
AllInit ==
    /\ StoreInit /\ MitInit /\ ResInit /\ DetInit /\ FwdInit /\ ProxyInit /\ CacheInit /\ ClientInit /\ HandlerInit /\ AppInit /\ BatchInit /\ RingInit /\ TallyInit /\ ScoreInit /\ BodyInit /\ AnalysisInit /\ AlertInit /\ LimiterInit /\ DenialInit

\* The initial states of the specifications: one component is given its inputs,
\* the others rest as constructed.
InitStore == clock = 1 /\ AllInit

InitMitigation == clock = Epoch /\ AllInit

InitResolver ==
    /\ clock = 1
    /\ StoreInit /\ MitInit /\ ResInputs /\ DetInit /\ FwdInit /\ ProxyInit /\ CacheInit /\ ClientInit /\ HandlerInit /\ AppInit /\ BatchInit /\ RingInit /\ TallyInit /\ ScoreInit /\ BodyInit /\ AnalysisInit /\ AlertInit /\ LimiterInit /\ DenialInit

InitDetector ==
    /\ clock = 1
    /\ StoreInit /\ MitInit /\ ResInit /\ DetInputs /\ FwdInit /\ ProxyInit /\ CacheInit /\ ClientInit /\ HandlerInit /\ AppInit /\ BatchInit /\ RingInit /\ TallyInit /\ ScoreInit /\ BodyInit /\ AnalysisInit /\ AlertInit /\ LimiterInit /\ DenialInit

InitForward ==
    /\ clock = 1
    /\ StoreInit /\ MitInit /\ ResInit /\ DetInit /\ FwdInputs /\ ProxyInit /\ CacheInit /\ ClientInit /\ HandlerInit /\ AppInit /\ BatchInit /\ RingInit /\ TallyInit /\ ScoreInit /\ BodyInit /\ AnalysisInit /\ AlertInit /\ LimiterInit /\ DenialInit

InitProxy ==
    /\ clock = Epoch
    /\ StoreInit /\ MitInit /\ ResInit /\ DetInit /\ ProxyStart /\ CacheInit /\ ClientInit /\ HandlerInit /\ AppInit /\ BatchInit /\ RingInit /\ TallyInit /\ ScoreInit /\ BodyInit /\ AnalysisInit /\ AlertInit /\ LimiterInit /\ DenialInit

InitBody ==
    /\ clock = Epoch
    /\ StoreInit /\ MitInit /\ ResInit /\ DetInit /\ ProxyStart /\ CacheInit /\ ClientInit /\ HandlerInit /\ AppInit /\ BatchInit /\ RingInit /\ TallyInit /\ ScoreInit /\ BodyStart /\ AnalysisInit /\ AlertInit /\ LimiterInit /\ DenialInit

InitCache ==
    /\ clock = 1
    /\ StoreInit /\ MitInit /\ ResInit /\ DetInit /\ FwdInit /\ ProxyInit /\ CacheStart /\ ClientInit /\ HandlerInit /\ AppInit /\ BatchInit /\ RingInit /\ TallyInit /\ ScoreInit /\ BodyInit /\ AnalysisInit /\ AlertInit /\ LimiterInit /\ DenialInit

InitClient == clock = 1 /\ AllInit

InitHandler == clock = Epoch /\ AllInit

InitApp ==
    /\ clock = Epoch
    /\ StoreInit /\ MitInit /\ ResInit /\ DetInit /\ ProxyStart /\ CacheInit /\ ClientInit /\ HandlerInit /\ AppInit /\ BatchInit /\ RingInit /\ TallyInit /\ ScoreInit /\ BodyInit /\ AnalysisInit /\ AlertInit /\ LimiterInit /\ DenialInit

InitBatch ==
    /\ clock = 1
    /\ StoreInit /\ MitInit /\ ResInit /\ DetInit /\ FwdInit /\ ProxyInit /\ BatchCacheStart /\ ClientInit /\ HandlerInit /\ AppInit /\ BatchStart /\ RingInit /\ TallyInit /\ ScoreInit /\ BodyInit /\ AnalysisInit /\ AlertInit /\ LimiterInit /\ DenialInit

InitRing == clock = 1 /\ AllInit

InitAnalysis ==
    /\ clock = 1
    /\ StoreInit /\ MitInit /\ ResInit /\ DetInit /\ FwdInit /\ ProxyInit /\ CacheInit /\ ClientInit /\ HandlerInit /\ AppInit /\ BatchInit /\ RingInit /\ TallyInit /\ ScoreInit /\ BodyInit /\ AnalysisInputs /\ AlertInit /\ LimiterInit /\ DenialInit

InitAlert == clock = 1 /\ AllInit

InitLimiter == clock = Epoch /\ AllInit

InitScore ==
    /\ clock = 1
    /\ StoreInit /\ MitInit /\ ResInit /\ DetInit /\ FwdInit /\ ProxyInit /\ CacheInit /\ ClientInit /\ HandlerInit /\ AppInit /\ BatchInit /\ RingInit /\ TallyInit /\ ScoreInputs /\ BodyInit /\ AnalysisInit /\ AlertInit /\ LimiterInit /\ DenialInit

SpecStore == InitStore /\ [][StoreNext]_vars

SpecMitigation == InitMitigation /\ [][MitNext]_vars

SpecMitigationFair == SpecMitigation /\ MitFairness

SpecResolver == InitResolver /\ [][ResNext]_vars

SpecDetector == InitDetector /\ [][DetNext]_vars

SpecForward == InitForward /\ [][FwdNext]_vars

SpecProxy == InitProxy /\ [][ProxyNext]_vars

SpecCache == InitCache /\ [][CacheNext]_vars

SpecClient == InitClient /\ [][ClientNext]_vars

SpecHandler == InitHandler /\ [][HandlerNext]_vars

SpecApp == InitApp /\ [][AppNext]_vars

SpecBatch == InitBatch /\ [][BatchNext]_vars

SpecBatchFair == SpecBatch /\ BatchFairness

SpecRing == InitRing /\ [][RingNext]_vars

SpecScore == InitScore /\ [][ScoreNext]_vars

SpecBody == InitBody /\ [][BodyNext]_vars

SpecLimiter == InitLimiter /\ [][LimiterNext]_vars

SpecAlert == InitAlert /\ [][AlertNext]_vars

SpecAnalysis == InitAnalysis /\ [][AnalysisNext]_vars

(* ------------------------------- claims -------------------------------- *)

(* C1 *)
\* C1: a request the handler judged BLOCK is never handed to forward.
C1_BlockNotForwarded ==
    (handled.judged /\ handled.verdict.action = "block") => ~handled.forwarded

\* C1 witness: a request from a blocklisted client was judged BLOCK and answered
\* 403 without a forward, the upstream being ready to answer.
C1_Witness ==
    /\ handled.judged
    /\ handled.verdict.action = "block"
    /\ handled.ip \in blocklist_ips
    /\ handled.status = 403
    /\ ~handled.forwarded

(* C2 *)
\* C2: a request judged BLOCK, CHALLENGE or RATE_LIMIT is never handed to forward.
C2_TerminalVerdictNotForwarded ==
    (handled.judged /\ handled.verdict.action \in {"block", "challenge", "rate_limit"})
        => ~handled.forwarded

(* C3 *)
\* Every timestamp the store retains, in the global queue and in the per-IP queues.
Retained == {global_q[i] : i \in DOMAIN global_q}
            \cup UNION {{per_ip[ip][i] : i \in DOMAIN per_ip[ip]} : ip \in DOMAIN per_ip}

\* No queue holds a timestamp older than now - W, now being the time of the last operation.
NoStaleEvent == \A t \in Retained : t >= storeHist.now - WindowSeconds

\* No IP is indexed with an empty queue, and the active-IP map holds only indexed IPs.
NoEmptyQueue ==
    /\ \A ip \in DOMAIN per_ip : Len(per_ip[ip]) > 0
    /\ DOMAIN active_ips \subseteq DOMAIN per_ip

\* An operation evaluated more than W seconds after the last add_event reports
\* zero counts, and the IP is not active.
QuietIsZero ==
    (storeHist.op \in {"peek", "snapshot"} /\ storeHist.now > storeHist.lastAdd + WindowSeconds)
        => /\ storeHist.snap.ip_event_count = 0
           /\ storeHist.snap.global_event_count = 0
           /\ storeHist.snap.unique_ip_count = 0
           /\ active_ips = EmptyDict

\* C3 as stated: after any add_event, peek or snapshot evaluated at time now, for any
\* sequence of operations and timestamps, no queue holds a timestamp older than
\* now - W, IPs with an empty queue are in neither map, and a quiet IP counts zero.
C3_AnyTimestamps ==
    storeHist.op # "none" => NoStaleEvent /\ NoEmptyQueue /\ QuietIsZero

\* C3 amended: the same, for runs in which the timestamps given to add_event never
\* decrease (as when the store stamps the events itself with the clock).
C3_OrderedTimestamps ==
    (storeHist.op # "none" /\ storeHist.ordered)
        => NoStaleEvent /\ NoEmptyQueue /\ QuietIsZero

\* C3 witness: an operation that pruned an event and removed the last IP from both maps.
C3_Witness ==
    /\ storeHist.ordered
    /\ storeHist.op = "peek"
    /\ storeHist.events >= 2
    /\ storeHist.dropped >= 2
    /\ per_ip = EmptyDict

(* C4 *)
RateLimitApplied == mitHist.op = "apply" /\ mitHist.action = "rate_limit"

\* C4 as stated: the first RATE_LIMIT request of an IP is allowed and stamps
\* last_allowed_time with now; a later one is denied exactly when
\* now - last_allowed_time < W_rl.
C4_DeniedWithinWindow ==
    RateLimitApplied =>
        /\ ~mitHist.had => mitHist.allowed
        /\ mitHist.had => (~mitHist.allowed <=> mitHist.now - mitHist.prior < RateWindow)
        /\ mitHist.allowed => rate_limited_ips[mitHist.ip] = mitHist.now

\* C4 amended: the same with the boundary on the other side: a later request is
\* denied exactly when now - last_allowed_time <= W_rl, and allowed again once
\* more than W_rl seconds have elapsed.  A denied request leaves the stamp alone.
C4_DeniedUpToWindow ==
    RateLimitApplied =>
        /\ ~mitHist.had => mitHist.allowed
        /\ mitHist.had => (~mitHist.allowed <=> mitHist.now - mitHist.prior <= RateWindow)
        /\ mitHist.allowed => rate_limited_ips[mitHist.ip] = mitHist.now
        /\ ~mitHist.allowed => rate_limited_ips[mitHist.ip] = mitHist.prior

\* C4 witness: a RATE_LIMIT request arriving exactly W_rl seconds after the last
\* allowed one, which is denied.
C4_Witness ==
    /\ RateLimitApplied
    /\ mitHist.had
    /\ mitHist.now - mitHist.prior = RateWindow
    /\ ~mitHist.allowed

(* C5 *)
\* The text is an address once the blanks around it are removed.
ValidEntry(tok) == tok.kind = "ip"

EntryAddr(tok) == Addr(tok.ver, tok.n)

\* The forwarded chain of the first request: the header's items, then the peer.
Chain == resolved.req.xff.items \o <<resolved.req.peer>>

\* The positions of the chain holding a valid address outside every trusted network.
Untrusted ==
    {i \in DOMAIN Chain :
        /\ ValidEntry(Chain[i])
        /\ ~is_ip_in_cidr_list(EntryAddr(Chain[i]), resolved.trusted)}

PeerUsable ==
    /\ resolved.req.has_peer
    /\ ValidEntry(resolved.req.peer)
    /\ ~resolved.req.peer.pad

PeerTrusted == PeerUsable /\ is_ip_in_cidr_list(EntryAddr(resolved.req.peer), resolved.trusted)

\* C5: with forwarded headers honoured and the peer inside a trusted network, the
\* result is the right-most entry of the chain (header items, then the peer) that
\* is a valid address outside every trusted network.
C5_NearestUntrustedHop ==
    (resolved.done /\ resolved.honor /\ PeerTrusted /\ Untrusted # {})
        => LET last == CHOOSE i \in Untrusted : \A j \in Untrusted : j <= i
           IN  resolved.ip = EntryAddr(Chain[last])

\* C5 witness: a header with two untrusted addresses before a trusted peer; the
\* right one of the two is returned.
C5_Witness ==
    /\ resolved.done /\ resolved.honor /\ PeerTrusted
    /\ Cardinality(Untrusted) = 2
    /\ EntryAddr(Chain[1]) # EntryAddr(Chain[2])
    /\ resolved.ip = EntryAddr(Chain[2])

(* C6 *)
\* C6: when honor_forwarded is false or the peer is outside every trusted network
\* (an empty list included), the result is the peer's address whatever the header
\* holds, and a request that differs only in its header resolves to the same address.
C6_HeaderIgnored ==
    (resolved.done /\ (~resolved.honor \/ ~PeerTrusted))
        => /\ resolved.ip = resolved.ip2
           /\ PeerUsable => resolved.ip = EntryAddr(resolved.req.peer)

\* C6 witness: an untrusted peer sends a header naming another address while
\* headers are honoured, and is resolved to itself.
C6_Witness ==
    /\ resolved.done /\ resolved.honor /\ PeerUsable /\ ~PeerTrusted
    /\ resolved.trusted # <<>>
    /\ resolved.req.xff.present
    /\ resolved.req.xff # resolved.req2.xff
    /\ \E i \in DOMAIN resolved.req.xff.items :
          /\ i \in Untrusted
          /\ EntryAddr(Chain[i]) # EntryAddr(resolved.req.peer)
    /\ resolved.ip = EntryAddr(resolved.req.peer)

(* C7 *)
\* The rules of the engine, as conditions on the evaluated request.
BlocklistRule == detected.sample.client_ip \in detected.blocklist

UserAgentRule ==
    /\ detected.sample.headers.present
    /\ Lower(detected.sample.headers.key) = <<"u", "a">>
    /\ \E ua \in suspicious_user_agents : Contains(Lower(detected.sample.headers.value), ua)

IpVolumeRule ==
    /\ FracGeq(detected.features.ip_request_rate, ip_rate_threshold)
    /\ FracGeq(detected.features.burst_score, burst_threshold)

GlobalVolumeRule == FracGeq(detected.features.global_request_rate, global_rate_threshold)

ClassifierRule ==
    /\ detected.ml.kind = "result"
    /\ ~detected.ml.is_benign
    /\ FracGt(detected.ml.confidence, ml_confidence)

\* C7: evaluate returns the verdict of the first matching rule in the order
\* blocklist (BLOCK/critical), suspicious user-agent (CHALLENGE/high), per-IP
\* volumetric (RATE_LIMIT/high), global volumetric (RATE_LIMIT/medium), classifier
\* non-benign with confidence above 0.8 (BLOCK, high if risk_score >= 80, else
\* medium), and ALLOW/low otherwise.
C7_FirstMatchWins ==
    detected.done =>
        detected.verdict =
            CASE BlocklistRule    -> Verdict("block", "critical", "ip_blocklisted")
              [] UserAgentRule    -> Verdict("challenge", "high", "suspicious_user_agent")
              [] IpVolumeRule     -> Verdict("rate_limit", "high", "ip_rate_exceeded")
              [] GlobalVolumeRule -> Verdict("rate_limit", "medium", "global_rate_spike")
              [] ClassifierRule   ->
                    Verdict("block",
                            IF FracGeq(detected.ml.risk_score, Frac(80, 1)) THEN "high" ELSE "medium",
                            "ml_detection")
              [] OTHER            -> Verdict("allow", "low", "baseline")

\* C7 witness: a request matching the user-agent rule, both volumetric rules and
\* the classifier rule, from an IP that is not blocklisted, gets CHALLENGE.
C7_Witness ==
    /\ detected.done
    /\ ~BlocklistRule /\ UserAgentRule /\ IpVolumeRule /\ GlobalVolumeRule /\ ClassifierRule
    /\ detected.verdict.action = "challenge"

(* C8 *)
\* The last predict of the service was answered from a cache.
CacheHit == cacheHist.from \in {"lru", "model_cache"}

\* C8: every predict of the service answered from a cache is answered from an entry
\* of the caller's key whose TTL is unexpired, with the last prediction stored
\* for that key.
C8_HitsUnexpiredAndLatest ==
    CacheHit =>
        /\ cacheHist.now - cacheHist.at < CacheTtl
        /\ cacheHist.prediction.sensitivity_level = cacheHist.key.level
        /\ cacheHist.prediction = last_stored[cacheHist.key]

(* C9 *)
\* The first k - 1 requests of the script fail with a transient transport error
\* and the k-th is answered.
AnsweredAt(k) ==
    /\ fwd.script[k].kind = "response"
    /\ \A j \in 1..(k - 1) : fwd.script[j].kind \in TransientErrors

\* C9: forward retries on transient transport errors up to max_retries attempts
\* and returns the first response; with three attempts and an upstream refusing
\* two connections before answering 200 the caller gets the 200.
C9_RetriesUntilAnswered ==
    fwd.done =>
        \A k \in 1..MaxRetries :
            (k <= fwd.max_retries /\ AnsweredAt(k)) =>
                /\ fwd.result.kind = "response"
                /\ fwd.result.status = fwd.script[k].status
                /\ fwd.result.attempts = k

\* C9 witness: three attempts allowed, two refused connections, then 200.
C9_Witness ==
    /\ fwd.done
    /\ fwd.max_retries = 3
    /\ fwd.script[1] = Failure("ConnectError")
    /\ fwd.script[2] = Failure("ConnectError")
    /\ fwd.script[3] = Response(200)
    /\ fwd.result.kind = "response"
    /\ fwd.result.status = 200

(* C10 *)
\* C10: when every attempt of forward failed with a transient transport error the
\* handler answers 502.
C10_ExhaustedIsBadGateway ==
    (handled.forwarded /\ handled.exhausted) => handled.status = 502


(* C11 *)
\* No call has hit a transient error yet: nobody has begun to close the client.
FirstUse == pool.closing = {}

\* The task's request was issued.
PastEnsure(t) == tasks[t].pc \in {"waiting", "done"}

\* C11: under any interleaving of concurrent first calls to forward on a fresh
\* client, exactly one pooled client is built: at most one exists, and every task
\* that left _ensure_client issued its request on that one.
C11_OneClientBuilt ==
    FirstUse =>
        /\ pool.built <= 1
        /\ \A t \in Tasks :
              PastEnsure(t) => pool.built = 1 /\ pool.client = 1 /\ tasks[t].using = 1

\* C11 witness: every task found no client at the check outside the lock, went
\* through the lock, and has its request in flight on the one client built.
C11_Witness ==
    /\ FirstUse
    /\ \A t \in Tasks : tasks[t].via_lock /\ tasks[t].pc = "waiting" /\ tasks[t].using = 1
    /\ pool.built = 1

(* C12 *)
\* C12: for any single IP, the store and the mitigation controller observe the
\* requests in the order in which they arrived at the handler: of two requests
\* of one IP, the one observed first did not arrive after the other.
C12_ObservedInArrivalOrder ==
    \A i, j \in DOMAIN seen :
        (i < j /\ seen[i].ip = seen[j].ip) => seen[i].start_time <= seen[j].start_time

(* C13 *)
\* C13: for any single IP, the events of the telemetry ring are monotone in the
\* arrival time of their requests: of two events of one IP, the newer one (nearer
\* the head) belongs to the request that did not arrive before the other.
C13_RingMonotoneInArrival ==
    \A i, j \in DOMAIN ring :
        (i < j /\ ring[i].client_ip = ring[j].client_ip)
            => ring[i].start_time >= ring[j].start_time

(* C14 *)
\* The last request was denied by the middleware, which decided to block it.
MwBlocked == ~mw.passed /\ mw.detection_type \in {"BLOCKLISTED", "HIGH_RISK_ATTACK"}

\* The last request was denied by the middleware, which decided to rate-limit it.
MwRateLimited == ~mw.passed /\ mw.detection_type \in {"SUSPICIOUS_TRAFFIC", "ANOMALOUS_TRAFFIC"}

\* The last request was denied by the handler.
HandlerDenied == mw.passed /\ handled.judged /\ ~handled.allowed

\* C14: a denied request is answered 429 if the verdict is RATE_LIMIT and 403 if it
\* is BLOCK, CHALLENGE or any other deny; a request from a blocklisted IP is
\* answered 403 with detail 'Access blocked' and leaves a telemetry event with
\* action block and reason ip_blocklisted.
C14_DenyStatusByVerdict ==
    /\ HandlerDenied =>
          mw.status = (IF handled.verdict.action = "rate_limit" THEN 429 ELSE 403)
    /\ MwRateLimited => mw.status = 429
    /\ MwBlocked => mw.status = 403
    /\ (mw.count > 0 /\ mw.blocklisted) =>
          /\ mw.status = 403
          /\ mw.detail = "Access blocked"
          /\ telemetry # <<>>
          /\ telemetry[1].client_ip = mw.client_ip
          /\ telemetry[1].action = "block"
          /\ telemetry[1].reason = "ip_blocklisted"

(* C15 *)
\* The model raised while evaluating the features of the last request.
ModelError == mw.count > 0 /\ mw.evaluation = "raise"

C19_DemoModeForwardsAll ==
    (~services_up /\ mw.count > 0 /\ mw.client_ip \in StoreIPs)
        => /\ mw.passed
           /\ handled.forwarded
           /\ mw.status = handled.status

(* C16 *)
\* The calls of predict for the key that have ended.
EndedFor(k) == {c \in Callers : callers[c].pc = "done" /\ callers[c].key = k}

\* C16: the predict calls for one key that run together and miss the cache cause
\* a single model evaluation, and all of them receive its outcome.
C16_SingleEvaluationPerKey ==
    \A k \in BatchKeys :
        /\ svc.evals[k] <= 1
        /\ \A c, d \in EndedFor(k) :
              /\ callers[c].outcome = callers[d].outcome
              /\ callers[c].prediction = callers[d].prediction

(* C17 *)
\* The calls of predict that ended by their own call of the model after batch_timeout.
FellBack == {c \in Callers : callers[c].pc = "done" /\ callers[c].via = "fallback"}

\* C17: every predict call that missed the cache and waits for its future
\* eventually ends, and a call that fell back after batch_timeout ends with what
\* its direct call of the model gives: the model's result for its key, or the
\* model's exception.
C17_WaiterEventuallyReturns ==
    /\ \A c \in Callers : (callers[c].pc = "waiting") ~> (callers[c].pc = "done")
    /\ [](\A c \in FellBack :
            /\ callers[c].future = "cancelled"
            /\ IF callers[c].key.features \in svc.failing
               THEN callers[c].outcome = "raise"
               ELSE /\ callers[c].outcome = "result"
                    /\ callers[c].prediction =
                          Classify(classifier, callers[c].key.features, callers[c].key.level))

\* C17 witness: a call fell back and returned the model's result while the worker
\* created for it had not yet run.
C17_Witness ==
    \E c \in FellBack :
        /\ callers[c].outcome = "result"
        /\ callers[c].prediction =
              Classify(classifier, callers[c].key.features, callers[c].key.level)
        /\ \E w \in DOMAIN svc.workers : svc.workers[w].pc = "created"
        /\ svc.queue # <<>>

(* C18 *)
\* The newest n of the recorded events, newest first.
RECURSIVE NewestFirst(_, _)
NewestFirst(all, n) ==
    IF n = 0 \/ all = <<>> THEN <<>>
    ELSE <<all[Len(all)]>> \o NewestFirst(SubSeq(all, 1, Len(all) - 1), n - 1)

\* C18: after any sequence of record calls the ring holds at most max_events
\* events, the most recently recorded ones, newest first, and recent_events
\* answers with them, cut to the first limit events when a limit is given.
C18_RingNewestFirstTruncated ==
    /\ Len(tel_events) <= RingSize
    /\ tel_events = NewestFirst(recorded, RingSize)
    /\ recent.called =>
          recent.events = IF recent.limit.given
                          THEN ListPrefix(recent.held, recent.limit.n)
                          ELSE recent.held

(* C20 *)
\* C20: apply with a BLOCK verdict records block_until = now + block_duration for
\* the IP in the controller's per-IP map, and returns allowed = false with
\* rule_matched = verdict.reason and the block duration to retry after.
C20_BlockRecordsBlockUntil ==
    (mitHist.op = "apply" /\ mitHist.action = "block") =>
        /\ ~mitHist.result.allowed
        /\ mitHist.result.rule_matched = <<mitHist.reason>>
        /\ mitHist.result.duration_seconds = <<BlockDuration>>
        /\ mitHist.ip \in DOMAIN rate_limited_ips
        /\ rate_limited_ips[mitHist.ip] = mitHist.now + BlockDuration

(* C21 *)
\* The controller holds an entry for the IP whose stamp is older than the window.
StaleEntry(ip) ==
    /\ ip \in DOMAIN rate_limited_ips
    /\ rate_limited_ips[ip] < clock - RateWindow

\* C21: every entry of the controller whose stamp lies before the active window
\* is eventually removed, so the controller holds state only for the IPs stamped
\* within the window.
C21_StaleEntriesSwept ==
    \A ip \in StoreIPs : StaleEntry(ip) ~> ~StaleEntry(ip)

(* C22 *)
\* The last operation returned the snapshot for an IP all of whose events were
\* stamped inside the window of every evaluation so far: none is older than the
\* latest evaluation time less the window.
OneWindow ==
    /\ storeHist.op \in {"add_event", "peek"}
    /\ \/ tally.adds[storeHist.ip] = 0
       \/ tally.oldest[storeHist.ip] >= tally.latest_now - WindowSeconds

\* C22: from the empty store, after n add_event calls for an IP with timestamps
\* inside one window, the snapshot for the IP has ip_event_count = n and
\* ip_request_rate = n / W.
C22_SnapshotCountsAdds ==
    OneWindow =>
        /\ storeHist.snap.ip_event_count = tally.adds[storeHist.ip]
        /\ storeHist.snap.ip_request_rate = Frac(tally.adds[storeHist.ip], WindowSeconds)

\* C22 witness: as many events as a run holds were added for one IP, the oldest
\* at the very start of the window, and peek counts them all.
C22_Witness ==
    /\ OneWindow
    /\ storeHist.op = "peek"
    /\ tally.adds[storeHist.ip] = MaxEvents
    /\ tally.oldest[storeHist.ip] = storeHist.now - WindowSeconds
    /\ storeHist.snap.ip_event_count = MaxEvents

(* C23 *)
\* One event was added so far.
OneEvent == storeHist.events = 1

\* The store holds no event: the queues and both indices are empty.
StoreEmpty ==
    /\ global_q = <<>>
    /\ DOMAIN per_ip = {}
    /\ DOMAIN active_ips = {}

\* C23: a window holding exactly one event, stamped t = now - W, does not retain
\* it after a store operation at time now.
C23_BoundaryEventDropped ==
    (OneEvent /\ storeHist.lastAdd = storeHist.now - WindowSeconds) => StoreEmpty

\* C23 amended: the one event is retained by every later operation evaluated at
\* a time now with t >= now - W, the operation at now = t + W included, and
\* dropped by the first operation evaluated after t + W.
C23_BoundaryEventRetained ==
    OneEvent =>
        /\ storeHist.lastAdd >= tally.latest_since_add - WindowSeconds
              => /\ global_q = <<storeHist.lastAdd>>
                 /\ \E ip \in StoreIPs : per_ip = [k \in {ip} |-> <<storeHist.lastAdd>>]
        /\ storeHist.lastAdd < tally.latest_since_add - WindowSeconds => StoreEmpty

\* C23 witness: the store was read at now = t + W and still holds the event.
C23_Witness ==
    /\ OneEvent
    /\ storeHist.op = "peek"
    /\ storeHist.lastAdd = storeHist.now - WindowSeconds
    /\ tally.latest_since_add = storeHist.now
    /\ global_q = <<storeHist.lastAdd>>
    /\ storeHist.snap.ip_event_count = 1

(* C24 *)
\* The positions of the chain holding a valid address.
ValidPositions == {i \in DOMAIN Chain : ValidEntry(Chain[i])}

\* C24: with forwarded headers honoured, the peer trusted and every valid entry
\* of the chain inside a trusted network, the result is the left-most valid
\* entry of the chain; invalid items are skipped and never make the result None.
C24_LeftmostValidWhenAllTrusted ==
    (resolved.done /\ resolved.honor /\ PeerTrusted /\ Untrusted = {})
        => LET first == CHOOSE i \in ValidPositions : \A j \in ValidPositions : i <= j
           IN  /\ resolved.ip # None
               /\ resolved.ip = EntryAddr(Chain[first])

(* C25 *)
\* The features of the evaluated request sit exactly on both per-IP thresholds.
OnBothThresholds ==
    /\ detected.features.ip_request_rate = ip_rate_threshold
    /\ detected.features.burst_score = burst_threshold

\* C25: a request from an IP that is not blocklisted, with no suspicious
\* user-agent, whose ip_request_rate is exactly the per-IP threshold and whose
\* burst_score is exactly the burst threshold, gets RATE_LIMIT/ip_rate_exceeded,
\* whatever the classifier says.
C25_ThresholdsNonStrict ==
    (detected.done /\ ~BlocklistRule /\ ~UserAgentRule /\ OnBothThresholds)
        => /\ detected.verdict.action = "rate_limit"
           /\ detected.verdict.reason = "ip_rate_exceeded"

\* C25 witness: such a request was evaluated while the classifier called it an
\* attack with high confidence, and it was rate-limited.
C25_Witness ==
    /\ detected.done /\ ~BlocklistRule /\ ~UserAgentRule /\ OnBothThresholds
    /\ ClassifierRule
    /\ detected.verdict = Verdict("rate_limit", "high", "ip_rate_exceeded")

(* C26 *)
\* The thresholds of the sensitivity profile the prediction was asked with.
ActiveProfile == SENSITIVITY_THRESHOLDS[scored.level]

Confident == scored.prediction.confidence >= ActiveProfile.confidence_threshold

Risky == scored.prediction.risk_score >= ActiveProfile.risk_score_threshold

\* C26: is_benign of every prediction is true exactly when its confidence is at
\* least the confidence threshold and its risk_score below the risk threshold of
\* the active sensitivity profile.
C26_BenignIffConfidentLowRisk ==
    scored.done => (scored.prediction.is_benign <=> (Confident /\ ~Risky))

\* C26 amended: is_benign is false exactly when the confidence is at least the
\* confidence threshold and the risk_score at least the risk threshold of the
\* active profile; a prediction under the confidence threshold is benign whatever
\* its risk_score.
C26_AttackIffConfidentHighRisk ==
    scored.done =>
        /\ scored.prediction.sensitivity_level = scored.level
        /\ scored.prediction.risk_score = scored.risk
        /\ scored.prediction.is_benign <=> ~(Confident /\ Risky)

\* C26 witness: a prediction under the confidence threshold with most of the
\* probability on the attack class was returned as benign.
C26_Witness ==
    /\ scored.done
    /\ ~Confident
    /\ scored.prediction.risk_score > 50
    /\ scored.prediction.is_benign

(* C27 *)
\* The handler answers a request of the client whose last request, the first it
\* handled, was judged one second ago and answered 200; the upstream, if asked,
\* answers.
SecondOfPair ==
    /\ handled.count = 1
    /\ handled.judged
    /\ handled.status = 200
    /\ telemetry # <<>>
    /\ telemetry[1].client_ip = handled.ip
    /\ clock = telemetry[1].at + 1
    /\ handled'.count = 2
    /\ handled'.ip = handled.ip
    /\ handled'.forwarded => fwd'.result.kind = "response"

\* C27: of two requests from the same IP one second apart, the first answered
\* 200, the second is answered 429 and carries a Retry-After value between two
\* seconds under the window and the window, inclusive.
C27_SecondRequestLimited ==
    [][SecondOfPair =>
          /\ handled'.status = 429
          /\ handled'.retry_after # <<>>
          /\ handled'.retry_after[1] \in (RateWindow - 2)..RateWindow]_vars

(* C28 *)
\* How many requests of the IP the limiter allowed in the window that ends at now:
\* stamps of allowed requests are more than a window apart, so the one the map
\* holds is the only one the window can contain.
AllowedInWindow(limited, ip, now) ==
    IF ip \in DOMAIN limited /\ limited[ip] >= now - RateWindow THEN 1 ELSE 0

\* C28: the limiter allows a request of an IP while fewer than request_rate_limit
\* of its requests were allowed in the sliding window, and get_remaining_requests
\* reports request_rate_limit less the requests allowed in the window.
C28_LimiterAllowsRequestRateLimit ==
    /\ (/\ mitHist.op = "apply"
         /\ mitHist.action = "rate_limit"
         /\ (IF mitHist.had /\ mitHist.prior >= mitHist.now - RateWindow THEN 1 ELSE 0)
                < RequestRateLimit)
            => mitHist.allowed
    /\ \A ip \in StoreIPs :
          get_remaining_requests(rate_limited_ips, ip, clock)
              = RequestRateLimit - AllowedInWindow(rate_limited_ips, ip, clock)

(* C29 *)
\* The handler judges one more request.
JudgedStep == handled'.count = handled.count + 1 /\ handled'.judged

\* C29: the blocklist changes only through the admin operations, never by an
\* evaluation, and every evaluation of a request from an IP yields block/critical
\* with reason ip_blocklisted while the IP is on the blocklist, and another
\* verdict when it is not (before it was added, and after it was removed).
C29_BlocklistedUntilRemoved ==
    [][/\ JudgedStep =>
            /\ blocklist_ips' = blocklist_ips
            /\ handled'.ip \in blocklist_ips
                  => handled'.verdict = Verdict("block", "critical", "ip_blocklisted")
            /\ handled'.ip \notin blocklist_ips
                  => handled'.verdict.reason # "ip_blocklisted"
       /\ blocklist_ips' # blocklist_ips =>
            /\ handled' = handled
            /\ \E ip \in ProxyBlocklisted :
                  \/ blocklist_ips' = blocklist_ips \cup {ip}
                  \/ blocklist_ips' = blocklist_ips \ {ip}]_vars

\* C29 witness: a request of a blocklisted client, not the first the handler saw,
\* sent with the user agent of a scanner, was judged block/critical/ip_blocklisted
\* and refused.
C29_Witness ==
    /\ handled.count >= 2
    /\ handled.judged
    /\ handled.ip \in blocklist_ips
    /\ handled.verdict = Verdict("block", "critical", "ip_blocklisted")
    /\ handled.status = 403

(* C30 *)
\* The k-th attempt of the call was made and raised an exception that is none of
\* the transport: every attempt before it failed with a retried exception.
NonTransportAt(k) ==
    /\ k \in 1..fwd.max_retries
    /\ fwd.script[k].kind \notin TransportErrors \cup {"response"}
    /\ \A j \in 1..(k - 1) : fwd.script[j].kind \in TransientErrors

\* C30: when an attempt raises a non-transport error, forward raises that error
\* to its caller having made no further attempt, with no back-off after it.
C30_NonTransportSurfaced ==
    fwd.done =>
        \A k \in 1..MaxRetries :
            NonTransportAt(k) =>
                /\ fwd.result.kind = "raise"
                /\ fwd.result.error = fwd.script[k].kind
                /\ fwd.result.attempts = k
                /\ fwd.result.slept = (k * (k - 1)) \div 2

\* C30 witness: the second attempt raised a non-transport error after a retried
\* one, with attempts left, and the call ended with it.
C30_Witness ==
    /\ fwd.done
    /\ fwd.max_retries = MaxRetries
    /\ NonTransportAt(2)
    /\ fwd.script[3].kind = "response"
    /\ fwd.result.kind = "raise"
    /\ fwd.result.attempts = 2

(* C31 *)
\* C31: a request whose body is as long as the configured maximum is accepted
\* (forwarded when its client is resolved and the verdict allows it), and a
\* request whose body is one byte longer is answered with a 4xx status without
\* being forwarded.
C31_OversizedBodyRejected ==
    handled.count > 0 =>
        /\ (body_len = MaxRequestBytes /\ handled.ip # None /\ handled.allowed)
              => handled.forwarded
        /\ body_len = MaxRequestBytes + 1
              => (handled.status \in 400..499 /\ ~handled.forwarded)

(* C32 *)
\* C32: whenever the detection result of a request has should_block or
\* should_rate_limit set, the middleware answered it with status 429 and did not
\* call the application, which handled and forwarded nothing for it.
C32_MiddlewareDecisionFinal ==
    (mw.count > 0 /\ (mw.should_block \/ mw.should_rate_limit)) =>
        /\ mw.status = 429
        /\ ~mw.passed

\* C32 witness: a request that was only to be rate limited was answered 429 by
\* the middleware while the application had handled nothing.
C32_Witness ==
    /\ mw.count > 0
    /\ ~mw.should_block
    /\ mw.should_rate_limit
    /\ mw.status = 429
    /\ ~mw.passed
    /\ handled.count = 0

(* C33 *)
Blocklisted == analysed.client_ip \in analysed.blocklist

\* C33: analyze_request sets should_block only when the client IP is blocklisted
\* or the prediction's risk_score is at least 90; a blocklisted IP is blocked
\* whatever the prediction; and a benign prediction with risk_score below 70 for
\* an IP off the blocklist yields NORMAL_TRAFFIC with neither flag set.
C33_BlockOnlyBlocklistedOrHighRisk ==
    analysed.done =>
        /\ analysed.result.should_block
              => (Blocklisted \/ analysed.prediction.risk_score >= 90)
        /\ Blocklisted => analysed.result.should_block
        /\ (~Blocklisted /\ analysed.prediction.is_benign /\ analysed.prediction.risk_score < 70)
              => /\ analysed.result.detection_type = "NORMAL_TRAFFIC"
                 /\ ~analysed.result.should_block
                 /\ ~analysed.result.should_rate_limit

\* C33 witness: a prediction of risk 89 for an IP off the blocklist was analysed
\* and not blocked.
C33_Witness ==
    /\ analysed.done
    /\ ~Blocklisted
    /\ analysed.prediction.risk_score = 89
    /\ ~analysed.result.should_block
    /\ analysed.result.should_rate_limit

(* C34 *)
\* C34: no two alerts of the same type for the same client IP are less than
\* dedup_window seconds apart; and a call of record_request whose check for a
\* type holds creates an alert (of that type or of one checked before it) when
\* no alert of that type for this IP is younger than the window, whatever alerts
\* other IPs got.
C34_AlertsDeduplicated ==
    /\ \A i, j \in DOMAIN alerting.alerts :
          (/\ i < j
           /\ alerting.alerts[i].alert_type = alerting.alerts[j].alert_type
           /\ alerting.alerts[i].client_ip = alerting.alerts[j].client_ip)
              => alerting.alerts[j].timestamp - alerting.alerts[i].timestamp >= DedupWindow
    /\ (alert_call.count > 0 /\ alert_call.held \ alert_call.deduped # {})
          => /\ alert_call.returned # <<>>
             /\ alert_call.returned[1] \in alert_call.held \ alert_call.deduped
             /\ alerting.alerts[Len(alerting.alerts)] =
                    [alert_type |-> alert_call.returned[1], client_ip |-> alert_call.client_ip,
                     timestamp |-> alert_call.now]
    /\ (alert_call.count > 0 /\ alert_call.held \ alert_call.deduped = {})
          => alert_call.returned = <<>>

\* C34 witness: an IP got a second alert of a type exactly one window after its
\* first, and another IP got an alert of that type in between or at either time.
C34_Witness ==
    \E i, j, k \in DOMAIN alerting.alerts :
        /\ i < j
        /\ alerting.alerts[i].alert_type = alerting.alerts[j].alert_type
        /\ alerting.alerts[i].client_ip = alerting.alerts[j].client_ip
        /\ alerting.alerts[j].timestamp - alerting.alerts[i].timestamp = DedupWindow
        /\ alerting.alerts[k].alert_type = alerting.alerts[i].alert_type
        /\ alerting.alerts[k].client_ip # alerting.alerts[i].client_ip
        /\ alerting.alerts[k].timestamp - alerting.alerts[i].timestamp < DedupWindow

(* C35 *)
\* C35: under every interleaving of concurrent RATE_LIMIT applications, any two
\* applications of one IP that were allowed are more than a window apart, so no
\* window of W_rl seconds holds two of them.
C35_OneGrantPerWindow ==
    \A i, j \in DOMAIN grants :
        (i < j /\ grants[i].ip = grants[j].ip)
            => grants[j].now - grants[i].now > RateWindow

\* C35 witness: while one task held the lock for an IP, having read the clock,
\* another task waited for the lock with the same IP, and an application of
\* that IP had been allowed before.
C35_Witness ==
    \E t, u \in Appliers :
        /\ appliers[t].pc = "read"
        /\ appliers[u].pc = "acquire"
        /\ appliers[t].ip = appliers[u].ip
        /\ \E i \in DOMAIN grants : grants[i].ip = appliers[t].ip

(* C36 *)
\* C36: under every interleaving of concurrent forward calls that hit transient
\* errors, no pooled client is set to None without having been closed, and no
\* request is issued on a client whose aclose() has begun.
C36_CloseDropsOnlyItsOwnClient ==
    /\ pool.leaked = {}
    /\ pool.late = {}

(* C37 *)
\* The _process_batch tasks that have begun to run.
ActiveWorkers == {w \in DOMAIN svc.workers : svc.workers[w].pc # "created"}

\* C37: at most one batch worker is active at any time, under every
\* interleaving of concurrent predict calls that miss the cache.
C37_AtMostOneWorker == Cardinality(ActiveWorkers) <= 1

(* C38 *)
\* The sum of the lengths of the per-IP queues of a set of keys.
RECURSIVE SumLengths(_, _)
SumLengths(index, keys) ==
    IF keys = {} THEN 0
    ELSE LET ip == CHOOSE k \in keys : TRUE
         IN  Len(index[ip]) + SumLengths(index, keys \ {ip})

\* The per-IP index and the active-IP map have the same keys, the snapshot's
\* unique_ip_count is the number of IPs with a non-empty queue, and its
\* global_event_count is the sum of the lengths of the per-IP queues.
IndexesAgree ==
    /\ DOMAIN per_ip = DOMAIN active_ips
    /\ storeHist.snap.unique_ip_count
           = Cardinality({ip \in DOMAIN per_ip : Len(per_ip[ip]) > 0})
    /\ storeHist.snap.global_event_count = SumLengths(per_ip, DOMAIN per_ip)
    /\ Len(global_q) = SumLengths(per_ip, DOMAIN per_ip)

\* C38 as stated: after any sequence of add_event, peek and snapshot calls the
\* per-IP index and the active-IP map have the same key set, unique_ip_count is
\* the number of IPs with a non-empty queue, and global_event_count is the sum
\* of the lengths of all per-IP queues.
C38_IndexesAgreeAnySequence == storeHist.op # "none" => IndexesAgree

\* C38 amended: the same, for runs in which the timestamps given to add_event
\* never decrease from one call to the next.
C38_IndexesAgreeOrdered ==
    (storeHist.op # "none" /\ storeHist.ordered) => IndexesAgree

\* C38 witness: with events of two IPs in the window, an operation pruned the
\* only event of one of them and kept the other IP in both maps.
C38_Witness ==
    /\ storeHist.ordered
    /\ storeHist.op \in {"peek", "snapshot"}
    /\ storeHist.dropped >= 1
    /\ Cardinality(DOMAIN per_ip) = 1
    /\ storeHist.events >= 2
    /\ Len(global_q) >= 1

(* C39 *)
\* C39: a denied RATE_LIMIT application leaves the IP's last_allowed_time as it
\* was, so that the controller's stamp is always the time of the last allowed
\* application, however many were denied since; and an application arriving
\* after the window measured from that time has elapsed is allowed.
C39_DeniedKeepsWindow ==
    /\ \A ip \in StoreIPs :
          IF denials[ip].last = 0
          THEN ip \notin DOMAIN rate_limited_ips
          ELSE ip \in DOMAIN rate_limited_ips /\ rate_limited_ips[ip] = denials[ip].last
    /\ (RateLimitApplied /\ ~mitHist.allowed) =>
          /\ mitHist.had
          /\ rate_limited_ips[mitHist.ip] = mitHist.prior
          /\ denials[mitHist.ip].n >= 1
    /\ (RateLimitApplied /\ mitHist.had /\ mitHist.now - mitHist.prior > RateWindow) =>
          /\ mitHist.allowed
          /\ denials[mitHist.ip].last = mitHist.now

\* C39 witness: an application was allowed at the first instant after the window
\* of the last allowed one, two applications having been denied in between.
C39_Witness ==
    /\ RateLimitApplied
    /\ mitHist.allowed
    /\ mitHist.had
    /\ mitHist.now - mitHist.prior = RateWindow + 1
    /\ denials[mitHist.ip].between >= 2

(* C40 *)
\* The feature vector of the request the handler judged last.
LastFeatures == ComputeFeatures(storeHist.snap)

\* The per-IP volumetric rule with burst threshold theta matches the features.
IpVolumeFires(features, theta) ==
    /\ FracGeq(features.ip_request_rate, ProxyThresholds.ip_rate)
    /\ FracGeq(features.burst_score, Frac(theta, 1))

\* C40: for every feature vector the feature extractor produces, the IP's event
\* count is at most the global event count and burst_score is at most
\* unique_ip_count, so the per-IP volumetric rule, whatever its burst threshold,
\* fires only when at least that many distinct IPs are active in the window.
C40_BurstAtMostUniqueIps ==
    storeHist.op = "add_event" =>
        /\ storeHist.snap.ip_event_count <= storeHist.snap.global_event_count
        /\ FracGeq(Frac(LastFeatures.unique_ip_count, 1), LastFeatures.burst_score)
        /\ \A theta \in 1..(MaxRequests + 1) :
              IpVolumeFires(LastFeatures, theta) => LastFeatures.unique_ip_count >= theta
        /\ (mitHist.op = "apply" /\ mitHist.reason = "ip_rate_exceeded") =>
              /\ IpVolumeFires(LastFeatures, ProxyThresholds.burst.num)
              /\ FracGeq(Frac(LastFeatures.unique_ip_count, 1), ProxyThresholds.burst)

\* C40 witness: the per-IP rule fired for an IP with two of the three events of
\* the window, two IPs being active: the burst score 4/3 lies between the
\* threshold and the number of active IPs.
C40_Witness ==
    /\ storeHist.op = "add_event"
    /\ mitHist.op = "apply"
    /\ mitHist.reason = "ip_rate_exceeded"
    /\ storeHist.snap.unique_ip_count = 2
    /\ storeHist.snap.ip_event_count = 2
    /\ storeHist.snap.global_event_count = 3
    /\ LastFeatures.burst_score = Frac(4, 3)

=============================================================================
